---- MODULE Spec2Model ----
(***************************************************************************)
(* Mass-times scraper (mt): the three-tier extraction pipeline             *)
(* (extractor.py), the validator (validator.py), the parser it rests on    *)
(* (parser.py), the Drupal sync (drupal_sync.py), the fetcher (scraper.py), *)
(* the template builder (template_builder.py), the extraction driver       *)
(* (run_extract.py) and the parish deduplication (discovery.py).           *)
(*                                                                         *)
(* Conventions.                                                            *)
(*  - An optional value (Python None or a value) is a sequence of length   *)
(*    0 or 1: None == <<>>, Some(x) == <<x>>.                              *)
(*  - A Python dict with insertion order (baseline_times, the map returned *)
(*    by parse_day_time_block) is a sequence of [day, times] entries with  *)
(*    pairwise distinct days.                                              *)
(*  - A confidence is an integer number of hundredths (1.0 is 100).        *)
(*  - A text is a sequence of lines and a line a sequence of tokens: the   *)
(*    tokens are the matches of the regular expressions of parser.py.      *)
(***************************************************************************)
EXTENDS Integers, Sequences, FiniteSets, TLC

None == <<>>
Some(x) == <<x>>
IsSome(o) == Len(o) > 0
Get(o) == o[1]

Max(a, b) == IF a >= b THEN a ELSE b
Min(a, b) == IF a <= b THEN a ELSE b

RECURSIVE SeqSum(_)
SeqSum(s) == IF s = <<>> THEN 0 ELSE Head(s) + SeqSum(Tail(s))

RECURSIVE Flatten(_)
Flatten(ss) == IF ss = <<>> THEN <<>> ELSE Head(ss) \o Flatten(Tail(ss))

SeqOfLen(S, n) == [1..n -> S]
SeqUpTo(S, n) == UNION {SeqOfLen(S, k) : k \in 0..n}

(***************************************************************************)
(* Bounds of the model.                                                    *)
(***************************************************************************)
\* the longest document: elements of an HTML page, lines of a PDF
MaxElems == 2

\* the most result files of a results directory
MaxFiles == 2

\* the most results given to cross_reference
MaxResults == 2

\* the most calls one thread makes on the Scraper
MaxCalls == 2

\* the longest a request takes to be answered, in seconds
MaxLatency == 1

\* the longest a thread stays away between two calls, in seconds
MaxPause == 2

(***************************************************************************)
(* parser.py                                                               *)
(***************************************************************************)
DAYS_FULL == <<"Monday", "Tuesday", "Wednesday", "Thursday",
               "Friday", "Saturday", "Sunday">>

DayIndex(d) == CHOOSE i \in 1..7 : DAYS_FULL[i] = d

\* Tokens: what the regular expressions of parser.py match in a line.  The
\* tokens of a line are set apart by punctuation ("Sunday, 9am, 10am"), so
\* that no lookahead or lookbehind of a pattern sees the token next to it.
\*   day    a day name; c: spelled in full (DAY_FULL_RE) or abbreviated
\*   range  DAY_RANGE_RE, from day s to day e
\*   colon  TIME_COLON_DOT  h:mm am/pm; c: spelled as the canonical form
\*   bare   TIME_NO_MINUTES h am/pm
\*   h24    TIME_24H        HH:MM
\*   word   any other word (s, lower case)
Tok(k, s, e, h, m, p, c) == [k |-> k, s |-> s, e |-> e, h |-> h, m |-> m, p |-> p, c |-> c]
DayTok(d) == Tok("day", d, "", 0, 0, "", TRUE)
AbbrevTok(d) == Tok("day", d, "", 0, 0, "", FALSE)
RangeTok(a, b) == Tok("range", a, b, 0, 0, "", TRUE)
ColonTok(h, m, p) == Tok("colon", "", "", h, m, p, TRUE)
BareTok(h, p) == Tok("bare", "", "", h, 0, p, FALSE)
H24Tok(h, m) == Tok("h24", "", "", h, m, "", FALSE)
Word(w) == Tok("word", w, "", 0, 0, "", FALSE)

\* ParsedTime
ParsedTime(h, m, p, c) == [hour |-> h, minute |-> m, period |-> p, canon |-> c]

Pad2(n) == IF n < 10 THEN "0" \o ToString(n) ELSE ToString(n)

\* ParsedTime.formatted
formatted(t) == ToString(t.hour) \o ":" \o Pad2(t.minute) \o " " \o t.period

\* ParsedTime.sort_key
sort_key(t) == ((t.hour % 12) + (IF t.period = "PM" THEN 12 ELSE 0)) * 60 + t.minute

\* expand_day_range without the wrap past Sunday
ExpandWithoutWrap(start, end) == SubSeq(DAYS_FULL, DayIndex(start), DayIndex(end))

\* expand_day_range, on canonical day names
expand_day_range(start, end) ==
  LET si == DayIndex(start)
      ei == DayIndex(end)
  IN  IF si <= ei
        THEN SubSeq(DAYS_FULL, si, ei)
        ELSE SubSeq(DAYS_FULL, si, 7) \o SubSeq(DAYS_FULL, 1, ei)

\* parse_time on the text of one match of TIME_COLON_DOT: the colon form if
\* its hour and minute are valid; else the bare form that TIME_NO_MINUTES
\* finds in its minute digits; else nothing.
ParseColon(t) ==
  IF t.h >= 1 /\ t.h <= 12 /\ t.m >= 0 /\ t.m <= 59
    THEN <<ParsedTime(t.h, t.m, t.p, t.c)>>
    ELSE IF t.m >= 1 /\ t.m <= 12 THEN <<ParsedTime(t.m, 0, t.p, FALSE)>> ELSE <<>>

\* parse_time on the text of one match of TIME_NO_MINUTES
ParseBare(h, p) == IF h >= 1 /\ h <= 12 THEN <<ParsedTime(h, 0, p, FALSE)>> ELSE <<>>

\* parse_time on the text of one match of TIME_24H
Parse24(t) ==
  IF t.h = 0 THEN <<ParsedTime(12, t.m, "AM", FALSE)>>
  ELSE IF t.h < 12 THEN <<ParsedTime(t.h, t.m, "AM", FALSE)>>
  ELSE IF t.h = 12 THEN <<ParsedTime(12, t.m, "PM", FALSE)>>
  ELSE <<ParsedTime(t.h - 12, t.m, "PM", FALSE)>>

\* The matches of one pattern in a line, in text order, each parsed.
\* TIME_NO_MINUTES also matches the minute digits and the am/pm of a colon
\* time (its lookbehind only refuses a digit, and ':' is none).
RECURSIVE PatternMatches(_, _)
PatternMatches(pat, line) ==
  IF line = <<>> THEN <<>>
  ELSE LET t == Head(line)
           here == IF pat = "colon" /\ t.k = "colon" THEN ParseColon(t)
                   ELSE IF pat = "bare" /\ t.k = "bare" THEN ParseBare(t.h, t.p)
                   ELSE IF pat = "bare" /\ t.k = "colon" THEN ParseBare(t.m, t.p)
                   ELSE IF pat = "h24" /\ t.k = "h24" THEN Parse24(t)
                   ELSE <<>>
       IN  here \o PatternMatches(pat, Tail(line))

\* deduplicate by formatted, keeping the first
RECURSIVE DedupTimes(_, _)
DedupTimes(ts, seen) ==
  IF ts = <<>> THEN <<>>
  ELSE IF formatted(Head(ts)) \in seen THEN DedupTimes(Tail(ts), seen)
  ELSE <<Head(ts)>> \o DedupTimes(Tail(ts), seen \cup {formatted(Head(ts))})

\* list.sort(key=sort_key): stable insertion
RECURSIVE InsertByKey(_, _)
InsertByKey(t, sorted) ==
  IF sorted = <<>> THEN <<t>>
  ELSE IF sort_key(t) < sort_key(Head(sorted)) THEN <<t>> \o sorted
  ELSE <<Head(sorted)>> \o InsertByKey(t, Tail(sorted))

RECURSIVE SortTimes(_)
SortTimes(ts) ==
  IF ts = <<>> THEN <<>>
  ELSE InsertByKey(ts[Len(ts)], SortTimes(SubSeq(ts, 1, Len(ts) - 1)))

\* find_times without the seen set
FindTimesKeepsDuplicates(line) ==
  SortTimes(PatternMatches("colon", line) \o PatternMatches("bare", line)
              \o PatternMatches("h24", line))

find_times(line) ==
  SortTimes(DedupTimes(PatternMatches("colon", line) \o PatternMatches("bare", line)
                         \o PatternMatches("h24", line), {}))

\* append the days of ds not seen yet
RECURSIVE AddDays(_, _)
AddDays(days, ds) ==
  IF ds = <<>> THEN days
  ELSE IF \E i \in 1..Len(days) : days[i] = Head(ds)
         THEN AddDays(days, Tail(ds))
         ELSE AddDays(Append(days, Head(ds)), Tail(ds))

RECURSIVE RangeDays(_)
RangeDays(line) ==
  IF line = <<>> THEN <<>>
  ELSE (IF Head(line).k = "range" THEN expand_day_range(Head(line).s, Head(line).e) ELSE <<>>)
       \o RangeDays(Tail(line))

\* the day names DAY_FULL_RE (full = TRUE) or DAY_ABBREV_RE (full = FALSE)
\* matches in a line: DAY_FULL_RE finds the names spelled in full, those of a
\* range included; DAY_ABBREV_RE finds every name, by its first three letters
RECURSIVE NamedDays(_, _)
NamedDays(line, full) ==
  IF line = <<>> THEN <<>>
  ELSE LET t == Head(line)
           here == IF t.k = "range" THEN <<t.s, t.e>>
                   ELSE IF t.k = "day" /\ (t.c \/ ~full) THEN <<t.s>>
                   ELSE <<>>
       IN  here \o NamedDays(Tail(line), full)

HasWord(line, w) == \E i \in 1..Len(line) : line[i].k = "word" /\ line[i].s = w

find_days(line) ==
  LET d1 == AddDays(<<>>, RangeDays(line))
      d2 == IF HasWord(line, "weekday") THEN AddDays(d1, SubSeq(DAYS_FULL, 1, 5)) ELSE d1
      d3 == IF HasWord(line, "weekend") THEN AddDays(d2, SubSeq(DAYS_FULL, 6, 7)) ELSE d2
      d4 == AddDays(d3, NamedDays(line, TRUE))
  IN  AddDays(d4, NamedDays(line, FALSE))

\* CHANGE_INDICATORS, as the words that match one of them
ChangeWords == {"note:", "cancelled", "instead", "rescheduled"}

RECURSIVE LineChangeIndicators(_)
LineChangeIndicators(line) ==
  IF line = <<>> THEN <<>>
  ELSE (IF Head(line).k = "word" /\ Head(line).s \in ChangeWords THEN <<Head(line).s>> ELSE <<>>)
       \o LineChangeIndicators(Tail(line))

RECURSIVE detect_change_indicators(_)
detect_change_indicators(text) ==
  IF text = <<>> THEN <<>>
  ELSE LineChangeIndicators(Head(text)) \o detect_change_indicators(Tail(text))

\* LANGUAGE_RE / detect_language on one line
LanguageWords == {"italian", "polish"}
detect_language(line) ==
  IF \E i \in 1..Len(line) : line[i].k = "word" /\ line[i].s \in LanguageWords
    THEN LET i == CHOOSE j \in 1..Len(line) :
                    /\ line[j].k = "word" /\ line[j].s \in LanguageWords
                    /\ \A l \in 1..(j - 1) : ~(line[l].k = "word" /\ line[l].s \in LanguageWords)
         IN  IF line[i].s = "italian" THEN "Italian" ELSE "Polish"
    ELSE "English"

\* SPECIAL_MARKERS_RE / detect_special_type on one line
detect_special_type(line) ==
  IF HasWord(line, "vigil") THEN "Vigil" ELSE "Regular"

\* dict lookup and update by day
HasDay(map, d) == \E i \in 1..Len(map) : map[i].day = d
TimesOf(map, d) == map[CHOOSE i \in 1..Len(map) : map[i].day = d].times

ExtendDay(map, d, ts) ==
  IF HasDay(map, d)
    THEN [i \in 1..Len(map) |->
            IF map[i].day = d THEN [day |-> d, times |-> map[i].times \o ts] ELSE map[i]]
    ELSE Append(map, [day |-> d, times |-> ts])

RECURSIVE ExtendDays(_, _, _)
ExtendDays(map, days, ts) ==
  IF days = <<>> THEN map
  ELSE ExtendDays(ExtendDay(map, Head(days), ts), Tail(days), ts)

FormattedAll(ts) == [i \in 1..Len(ts) |-> formatted(ts[i])]

RECURSIVE ParseLines(_, _)
ParseLines(map, lines) ==
  IF lines = <<>> THEN map
  ELSE LET days == find_days(Head(lines))
           times == find_times(Head(lines))
       IN  IF days # <<>> /\ times # <<>>
             THEN ParseLines(ExtendDays(map, days, FormattedAll(times)), Tail(lines))
             ELSE ParseLines(map, Tail(lines))

parse_day_time_block(text) == ParseLines(<<>>, text)

(***************************************************************************)
(* models.py                                                               *)
(***************************************************************************)
\* SourceType: the values SourceType(...) accepts
SourceTypeValues == {"ical_feed", "structured_data", "website_page",
                     "pdf_bulletin", "facebook_page"}

\* ValidationStatus
ValidationStatusValues == {"confirmed", "provisional", "flagged"}

\* MassTime(day=..., time=...) and MassTime with every field given
MassTimeFull(day, time, mass_type, language, notes) ==
  [day |-> day, time |-> time, mass_type |-> mass_type, language |-> language,
   notes |-> notes]
MassTime(day, time) == MassTimeFull(day, time, "Regular", "English", "")

\* ExtractionResult(parish_id=..., source_type=...): the dataclass defaults
ExtractionResult(parish_id, source_type) ==
  [parish_id |-> parish_id, times |-> <<>>, tier |-> 1, confidence |-> 100,
   validation_status |-> "confirmed", source_url |-> "", source_type |-> source_type,
   content_hash |-> "", llm_model |-> None, llm_cost_usd |-> 0,
   changes_from_previous |-> <<>>]

(***************************************************************************)
(* template_builder.py: the template types                                 *)
(***************************************************************************)
\* WebTemplate
WebTemplate(url, section_selector, fallback_selectors) ==
  [url |-> url, section_selector |-> section_selector,
   fallback_selectors |-> fallback_selectors]

\* PdfTemplate; bounding_region is a dict, here a record of the keys it holds
PdfTemplate(bulletin_page_url, bounding_region, section_static) ==
  [bulletin_page_url |-> bulletin_page_url, pdf_link_pattern |-> "",
   mass_times_page |-> 0, bounding_region |-> bounding_region,
   section_static |-> section_static]

\* ParishTemplate; validation_rules holds min_weekly_masses or lacks the key
ParishTemplate(source_type, web_template, pdf_template, baseline_times, min_weekly_masses) ==
  [parish_id |-> "test-parish", source_type |-> source_type,
   web_template |-> web_template, pdf_template |-> pdf_template,
   baseline_times |-> baseline_times,
   validation_rules |-> [min_weekly_masses |-> min_weekly_masses]]

(***************************************************************************)
(* scraper.py, as the extractor sees it: the answers of the fetcher        *)
(***************************************************************************)
\* hashlib.sha256(...).hexdigest(): a digest that tells contents apart
Sha256(content) == "sha256:" \o ToString(content)

\* An HTML page: its elements in document order, each with the one selector
\* that matches it and its line of text.
Element(sel, line) == [sel |-> sel, line |-> line]

\* A PDF: its lines in reading order, each inside or outside of the
\* template's bounding region; readable: pdfplumber can open the bytes.
PdfLine(inside, line) == [inside |-> inside, line |-> line]
Pdf(lines, readable) == [lines |-> lines, readable |-> readable]

\* pdfplumber's text of a list of lines
RECURSIVE LinesOf(_)
LinesOf(elems) == IF elems = <<>> THEN <<>> ELSE <<Head(elems).line>> \o LinesOf(Tail(elems))

RECURSIVE InsideOf(_)
InsideOf(elems) ==
  IF elems = <<>> THEN <<>>
  ELSE (IF Head(elems).inside THEN <<Head(elems)>> ELSE <<>>) \o InsideOf(Tail(elems))

\* Scraper.extract_text_from_pdf; a result [raised, value]
extract_text_from_pdf(pdf) ==
  IF ~pdf.readable THEN [raised |-> TRUE, value |-> <<>>]
  ELSE [raised |-> FALSE, value |-> LinesOf(pdf.lines)]

\* Scraper.extract_text_from_region, for the region the lines are marked by
extract_text_from_region(pdf, page_num) ==
  IF ~pdf.readable THEN [raised |-> TRUE, value |-> <<>>]
  ELSE IF page_num >= 1 THEN [raised |-> FALSE, value |-> <<>>]
  ELSE [raised |-> FALSE, value |-> LinesOf(InsideOf(pdf.lines))]

(***************************************************************************)
(* extractor.py                                                            *)
(***************************************************************************)
\* selectors soup.select_one cannot parse: it raises
InvalidSelectors == {"[bad"}

\* soup.select_one(selector): the first element the selector matches
select_one(soup, selector) ==
  IF \E i \in 1..Len(soup) : soup[i].sel = selector
    THEN Some(soup[CHOOSE i \in 1..Len(soup) :
                     soup[i].sel = selector /\ \A j \in 1..(i - 1) : soup[j].sel # selector])
    ELSE None

RECURSIVE SelectFirst(_, _)
SelectFirst(soup, selectors) ==
  IF selectors = <<>> THEN LinesOf(soup)
  ELSE LET selector == Head(selectors)
       IN  IF selector = "" THEN SelectFirst(soup, Tail(selectors))
           ELSE IF selector \in InvalidSelectors THEN SelectFirst(soup, Tail(selectors))
           ELSE IF IsSome(select_one(soup, selector))
                  THEN <<Get(select_one(soup, selector)).line>>
                  ELSE SelectFirst(soup, Tail(selectors))

\* Extractor._extract_section_from_html
_extract_section_from_html(soup, template) ==
  IF ~IsSome(template.web_template) THEN LinesOf(soup)
  ELSE SelectFirst(soup, <<Get(template.web_template).section_selector>>
                           \o Get(template.web_template).fallback_selectors)

RegionKeys == {"x_min", "y_min", "x_max", "y_max"}

\* Extractor._extract_text_from_pdf; a result [raised, value]
_extract_text_from_pdf(pdf, template) ==
  LET pt == Get(template.pdf_template)
      region == pt.bounding_region
      full == extract_text_from_pdf(pdf)
  IN  IF IsSome(template.pdf_template) /\ DOMAIN region # {}
         /\ (IF "x_max" \in DOMAIN region THEN region.x_max ELSE 0) > 0
        THEN IF ~(RegionKeys \subseteq DOMAIN region)
               THEN [raised |-> TRUE, value |-> <<>>]
             ELSE LET text == extract_text_from_region(pdf, pt.mass_times_page)
                  IN  IF text.raised THEN text
                      ELSE IF text.value # <<>> THEN text
                      ELSE full
        ELSE full

\* What the fetcher answers during one _fetch_content:
\*   page  fetch_page(web_template.url): nothing, or the page
\*   link  find_latest_pdf_link(...): nothing, or a URL
\*   pdf   fetch_pdf(link): nothing, or the PDF
Answers(page, link, pdf) == [page |-> page, link |-> link, pdf |-> pdf]

PdfSourceTypes == {"pdf_bulletin", "pdf_fulltext_regex", "pdf_region_regex"}

\* Extractor._fetch_content; a result [raised, value, asked]: value is nothing
\* or Some([text, content_hash]); asked is the set of fetcher calls made
_fetch_content(template, ans) ==
  IF template.source_type = "website_page" /\ IsSome(template.web_template)
    THEN IF IsSome(ans.page)
           THEN [raised |-> FALSE, asked |-> {"fetch_page"},
                 value |-> Some([text |-> _extract_section_from_html(Get(ans.page), template),
                                 content_hash |-> Sha256(Get(ans.page))])]
           ELSE [raised |-> FALSE, asked |-> {"fetch_page"}, value |-> None]
  ELSE IF template.source_type \in PdfSourceTypes
          /\ IsSome(template.pdf_template)
          /\ Get(template.pdf_template).bulletin_page_url # ""
    THEN IF ~IsSome(ans.link)
           THEN [raised |-> FALSE, asked |-> {"find_latest_pdf_link"}, value |-> None]
         ELSE IF ~IsSome(ans.pdf)
           THEN [raised |-> FALSE, asked |-> {"find_latest_pdf_link", "fetch_pdf"},
                 value |-> None]
         ELSE LET text == _extract_text_from_pdf(Get(ans.pdf), template)
              IN  [raised |-> text.raised, asked |-> {"find_latest_pdf_link", "fetch_pdf"},
                   value |-> IF text.raised THEN None
                             ELSE Some([text |-> text.value,
                                        content_hash |-> Sha256(Get(ans.pdf))])]
  ELSE [raised |-> FALSE, asked |-> {}, value |-> None]

\* the (day, time) entries of a day -> times map, in dict order
RECURSIVE Pairs(_)
Pairs(map) ==
  IF map = <<>> THEN <<>>
  ELSE [i \in 1..Len(Head(map).times) |-> <<Head(map).day, Head(map).times[i]>>]
       \o Pairs(Tail(map))

\* _tier1_static without its check for change indicators
Tier1WithoutChangeCheck(template, text) ==
  IF template.baseline_times = <<>> THEN None
  ELSE IF IsSome(template.pdf_template) /\ ~Get(template.pdf_template).section_static
    THEN None
  ELSE LET ps == Pairs(template.baseline_times)
           mass_times == [i \in 1..Len(ps) |-> MassTime(ps[i][1], ps[i][2])]
       IN  IF mass_times # <<>> THEN Some(mass_times) ELSE None

\* Extractor._tier1_static: nothing (escalate) or Some(mass_times)
_tier1_static(template, text) ==
  IF template.baseline_times = <<>> THEN None
  ELSE IF detect_change_indicators(text) # <<>> THEN None
  ELSE IF IsSome(template.pdf_template) /\ ~Get(template.pdf_template).section_static
    THEN None
  ELSE LET ps == Pairs(template.baseline_times)
           mass_times == [i \in 1..Len(ps) |-> MassTime(ps[i][1], ps[i][2])]
       IN  IF mass_times # <<>> THEN Some(mass_times) ELSE None

\* time_str.replace(" ", "").lower() in line.replace(" ", "").lower()
LineHasTime(line, time_str) ==
  \E i \in 1..Len(line) :
     /\ line[i].k = "colon" /\ line[i].c
     /\ formatted(ParsedTime(line[i].h, line[i].m, line[i].p, TRUE)) = time_str

\* the first line of the text that contains the time: <<>> when there is none
ContextLine(text, time_str) ==
  IF \E i \in 1..Len(text) : LineHasTime(text[i], time_str)
    THEN text[CHOOSE i \in 1..Len(text) :
                /\ LineHasTime(text[i], time_str)
                /\ \A j \in 1..(i - 1) : ~LineHasTime(text[j], time_str)]
    ELSE <<>>

\* validation_rules.get("min_weekly_masses", 5)
MinWeeklyMasses(rules) ==
  IF IsSome(rules.min_weekly_masses) THEN Get(rules.min_weekly_masses) ELSE 5

TotalTimes(map) == SeqSum([i \in 1..Len(map) |-> Len(map[i].times)])

\* the MassTime objects of _tier2_code, with type and language detection
Tier2MassTimes(text, day_time_map) ==
  LET ps == Pairs(day_time_map)
  IN  [i \in 1..Len(ps) |->
         LET context == ContextLine(text, ps[i][2])
         IN  MassTimeFull(ps[i][1], ps[i][2],
                          IF context # <<>> THEN detect_special_type(context) ELSE "Regular",
                          IF context # <<>> THEN detect_language(context) ELSE "English",
                          "")]

\* _tier2_code escalating also when the total equals the minimum
Tier2OffByOne(template, text) ==
  LET day_time_map == parse_day_time_block(text)
      mass_times == Tier2MassTimes(text, day_time_map)
  IN  IF day_time_map = <<>> THEN None
      ELSE IF TotalTimes(day_time_map) <= MinWeeklyMasses(template.validation_rules) THEN None
      ELSE IF mass_times # <<>> THEN Some(mass_times) ELSE None

\* Extractor._tier2_code: nothing (escalate) or Some(mass_times)
_tier2_code(template, text) ==
  LET day_time_map == parse_day_time_block(text)
      mass_times == Tier2MassTimes(text, day_time_map)
  IN  IF day_time_map = <<>> THEN None
      ELSE IF TotalTimes(day_time_map) < MinWeeklyMasses(template.validation_rules) THEN None
      ELSE IF mass_times # <<>> THEN Some(mass_times) ELSE None

\* What the LLM side answers to one Tier-3 call:
\*   import_error  the anthropic package is not installed
\*   api_error     messages.create raises
\*   bad_fence     the answer holds ``` but no closed fence
\*   bad_json      json.loads raises
\*   not_object    the JSON is no object, or its entries are none
\*   ok            a JSON object; times: its "times" entries
LlmAnswer(kind, times, input_tokens, output_tokens) ==
  [kind |-> kind, times |-> times, input_tokens |-> input_tokens,
   output_tokens |-> output_tokens]

\* (input_tokens * 3 + output_tokens * 15) / 1_000_000, in millionths of a dollar
LlmCost(llm) == llm.input_tokens * 3 + llm.output_tokens * 15

\* _tier3_llm calling the LLM once more after a failed call
Tier3RetriesOnError(template, text, llm) ==
  IF llm.kind = "import_error" THEN [times |-> None, cost |-> 0, calls |-> 0]
  ELSE IF llm.kind = "api_error" THEN [times |-> None, cost |-> 0, calls |-> 2]
  ELSE IF llm.kind \in {"bad_fence", "bad_json", "not_object"}
    THEN [times |-> None, cost |-> 0, calls |-> 1]
  ELSE LET mass_times == [i \in 1..Len(llm.times) |->
                            MassTimeFull(llm.times[i].day, llm.times[i].time,
                                         llm.times[i].mass_type, llm.times[i].language,
                                         llm.times[i].notes)]
       IN  [times |-> IF mass_times # <<>> THEN Some(mass_times) ELSE None,
            cost |-> LlmCost(llm), calls |-> 1]

\* Extractor._tier3_llm: [times, cost, calls]: times is nothing or
\* Some(mass_times); calls counts the messages.create calls made
_tier3_llm(template, text, llm) ==
  IF llm.kind = "import_error" THEN [times |-> None, cost |-> 0, calls |-> 0]
  ELSE IF llm.kind = "api_error" THEN [times |-> None, cost |-> 0, calls |-> 1]
  ELSE IF llm.kind = "bad_fence" THEN [times |-> None, cost |-> LlmCost(llm), calls |-> 1]
  ELSE IF llm.kind \in {"bad_json", "not_object"} THEN [times |-> None, cost |-> 0, calls |-> 1]
  ELSE LET mass_times == [i \in 1..Len(llm.times) |->
                            MassTimeFull(llm.times[i].day, llm.times[i].time,
                                         llm.times[i].mass_type, llm.times[i].language,
                                         llm.times[i].notes)]
       IN  [times |-> IF mass_times # <<>> THEN Some(mass_times) ELSE None,
            cost |-> LlmCost(llm), calls |-> 1]

(***************************************************************************)
(* validator.py                                                            *)
(***************************************************************************)
\* template_rules: a dict; a key that is missing is nothing
Rules(min_weekly_masses, max_weekly_masses, expected_sunday_count, alert_if_all_change) ==
  [min_weekly_masses |-> min_weekly_masses,
   max_weekly_masses |-> max_weekly_masses,
   expected_sunday_count |-> expected_sunday_count,
   alert_if_all_change |-> alert_if_all_change]

\* template_rules.get("max_weekly_masses", 20)
MaxWeeklyMasses(rules) ==
  IF IsSome(rules.max_weekly_masses) THEN Get(rules.max_weekly_masses) ELSE 20

\* template_rules.get("expected_sunday_count", 0)
ExpectedSunday(rules) ==
  IF IsSome(rules.expected_sunday_count) THEN Get(rules.expected_sunday_count) ELSE 0

\* template_rules.get("alert_if_all_change", True)
AlertIfAllChange(rules) ==
  IF IsSome(rules.alert_if_all_change) THEN Get(rules.alert_if_all_change) ELSE TRUE

\* sum(1 for t in result.times if t.day == "Sunday")
SundayCount(times) == Cardinality({i \in 1..Len(times) : times[i].day = "Sunday"})

\* {(t.day, t.time) for t in times}
DayTimeSet(times) == {<<times[i].day, times[i].time>> : i \in 1..Len(times)}

\* the issue texts, without their numbers
IssueOnly == "Only masses found (min)"
IssueMax == "masses found (max)"
IssueNoSunday == "No Sunday masses found"
IssueSunday == "Sunday count differs from expected"
IssueChanged == "times changed - possible extraction error"

\* Rules 1 and 2: the mass count
CountIssues(times, rules) ==
  (IF Len(times) < MinWeeklyMasses(rules) THEN <<IssueOnly>> ELSE <<>>)
  \o (IF Len(times) > MaxWeeklyMasses(rules) THEN <<IssueMax>> ELSE <<>>)

\* Rule 3: the expected Sunday count
SundayIssues(times, rules) ==
  LET expected_sunday == ExpectedSunday(rules)
      sunday_count == SundayCount(times)
      diff == sunday_count - expected_sunday
  IN  IF expected_sunday > 0
        THEN IF sunday_count = 0 THEN <<IssueNoSunday>>
             ELSE IF (IF diff < 0 THEN -diff ELSE diff) > 1 THEN <<IssueSunday>>
             ELSE <<>>
        ELSE <<>>

\* Rule 4: the comparison against the previous extraction
ChangeIssues(times, rules, previous_times) ==
  IF IsSome(previous_times) /\ Get(previous_times) # <<>>
    THEN LET prev_set == DayTimeSet(Get(previous_times))
             curr_set == DayTimeSet(times)
             changed == (prev_set \ curr_set) \cup (curr_set \ prev_set)
         IN  IF prev_set # {} /\ curr_set # {}
                /\ 2 * Cardinality(changed)
                     > Max(Cardinality(prev_set), Cardinality(curr_set))
                /\ AlertIfAllChange(rules)
               THEN <<IssueChanged>>
               ELSE <<>>
    ELSE <<>>

\* the issues of validate_extraction, in the order they are appended
Issues(times, rules, previous_times) ==
  CountIssues(times, rules) \o SundayIssues(times, rules)
  \o ChangeIssues(times, rules, previous_times)

\* the test for a minor discrepancy taking any issue about Sundays
MentionsSunday(issue) == issue \in {IssueSunday, IssueNoSunday}

\* "differs from expected" in issue
DiffersFromExpected(issue) == issue = IssueSunday

\* the status mapping leaving the status alone when there are no issues
StatusKeptWithoutIssues(result, issues) ==
  IF issues = <<>> THEN result
  ELSE IF Len(issues) = 1 /\ DiffersFromExpected(issues[1])
    THEN [result EXCEPT !.validation_status = "provisional",
                        !.confidence = Min(result.confidence, 70)]
  ELSE [result EXCEPT !.validation_status = "flagged",
                      !.confidence = Min(result.confidence, 30)]

\* the status and the confidence validate_extraction sets for the issues
StatusFor(result, issues) ==
  IF issues = <<>>
    THEN [result EXCEPT !.validation_status = "confirmed"]
  ELSE IF Len(issues) = 1 /\ DiffersFromExpected(issues[1])
    THEN [result EXCEPT !.validation_status = "provisional",
                        !.confidence = Min(result.confidence, 70)]
  ELSE [result EXCEPT !.validation_status = "flagged",
                      !.confidence = Min(result.confidence, 30)]

\* validate_extraction: the result, modified in place
validate_extraction(result, template_rules, previous_times) ==
  IF result.times = <<>>
    THEN [result EXCEPT !.validation_status = "flagged", !.confidence = 0]
  ELSE LET issues == Issues(result.times, template_rules, previous_times)
       IN  [StatusFor(result, issues) EXCEPT
              !.changes_from_previous = result.changes_from_previous \o issues]

\* source_priority.get(r.source_type.value, 99)
source_priority(source_type) ==
  IF source_type = "ical_feed" THEN 0
  ELSE IF source_type = "structured_data" THEN 1
  ELSE IF source_type = "website_page" THEN 2
  ELSE IF source_type = "pdf_bulletin" THEN 3
  ELSE 99

\* the sort key of cross_reference: a sorts before b
KeyBefore(a, b) ==
  \/ source_priority(a.source_type) < source_priority(b.source_type)
  \/ /\ source_priority(a.source_type) = source_priority(b.source_type)
     /\ -a.confidence < -b.confidence

\* results.sort(key=...): stable
RECURSIVE InsertResult(_, _)
InsertResult(r, sorted) ==
  IF sorted = <<>> THEN <<r>>
  ELSE IF KeyBefore(r, Head(sorted)) THEN <<r>> \o sorted
  ELSE <<Head(sorted)>> \o InsertResult(r, Tail(sorted))

RECURSIVE SortResults(_)
SortResults(results) ==
  IF results = <<>> THEN <<>>
  ELSE InsertResult(results[Len(results)], SortResults(SubSeq(results, 1, Len(results) - 1)))

\* the agreement test taking an overlap of exactly 80% as agreement
AgreeFromEighty(times_a, times_b) ==
  /\ times_a # {} /\ times_b # {}
  /\ 10 * Cardinality(times_a \cap times_b)
       >= 8 * Max(Cardinality(times_a), Cardinality(times_b))

\* times_a and times_b and overlap_ratio > 0.8
Agree(times_a, times_b) ==
  /\ times_a # {} /\ times_b # {}
  /\ 10 * Cardinality(times_a \cap times_b)
       > 8 * Max(Cardinality(times_a), Cardinality(times_b))

\* cross_reference with the boost added as it is, without min(1.0, ...)
CrossReferenceUncapped(results) ==
  IF results = <<>> THEN None
  ELSE IF Len(results) = 1 THEN Some(results[1])
  ELSE LET sorted == SortResults(results)
           best == sorted[1]
       IN  IF Agree(DayTimeSet(sorted[1].times), DayTimeSet(sorted[2].times))
             THEN Some([best EXCEPT !.confidence = best.confidence + 10,
                                    !.validation_status = "confirmed"])
             ELSE Some(best)

\* cross_reference: nothing, or Some(best)
cross_reference(results) ==
  IF results = <<>> THEN None
  ELSE IF Len(results) = 1 THEN Some(results[1])
  ELSE LET sorted == SortResults(results)
           best == sorted[1]
       IN  IF Agree(DayTimeSet(sorted[1].times), DayTimeSet(sorted[2].times))
             THEN Some([best EXCEPT !.confidence = Min(100, best.confidence + 10),
                                    !.validation_status = "confirmed"])
             ELSE Some(best)

(***************************************************************************)
(* run_extract.py, drupal_sync.py                                          *)
(***************************************************************************)
\* save_result: the JSON data written for a result (extracted_at left out)
save_result(result) ==
  [parish_id |-> result.parish_id,
   times |-> result.times,
   tier |-> result.tier,
   confidence |-> result.confidence,
   validation_status |-> result.validation_status,
   content_hash |-> result.content_hash,
   source_url |-> result.source_url,
   llm_model |-> result.llm_model,
   llm_cost_usd |-> result.llm_cost_usd]

\* a result file: one that cannot be read or parsed, or one that holds data
File(readable, data) == [readable |-> readable, data |-> data]

\* a request of the session, with the result file it is sent for
Request(method, url, f) == [method |-> method, url |-> url, file |-> f]

\* What Drupal answers during one sync_extraction:
\*   uuid   the parish lookup: nothing, or the UUID
\*   nid    the node lookup: nothing, or the node id
\*   post   the paragraph POSTs: "ok", "http_error", or "bad_body" (no data.id)
\*   patch  the parish PATCH: "ok" or "http_error"
DrupalAnswer(uuid, nid, post, patch) ==
  [uuid |-> uuid, nid |-> nid, post |-> post, patch |-> patch]

\* DrupalSync.sync_extraction: [raised, success, requests]
sync_extraction(f, drupal) ==
  LET uuid_get == Request("GET", "/jsonapi/node/parish?filter", f)
      nid_get == Request("GET", "/jsonapi/node/parish/uuid", f)
      post == Request("POST", "/jsonapi/paragraph/mass_time", f)
      patch == Request("PATCH", "/jsonapi/node/parish/uuid", f)
      Out(raised, success, requests) ==
        [raised |-> raised, success |-> success, requests |-> requests]
  IN  IF ~f.readable THEN Out(FALSE, FALSE, <<>>)
      ELSE IF f.data.parish_id = "" THEN Out(FALSE, FALSE, <<>>)
      ELSE IF ~IsSome(drupal.uuid) THEN Out(FALSE, FALSE, <<uuid_get>>)
      ELSE IF ~IsSome(drupal.nid) \/ Get(drupal.nid) = 0
        THEN Out(FALSE, FALSE, <<uuid_get, nid_get>>)
      ELSE IF f.data.times = <<>> THEN Out(FALSE, TRUE, <<uuid_get, nid_get>>)
      ELSE IF drupal.post = "bad_body"
        THEN Out(TRUE, FALSE, <<uuid_get, nid_get, post>>)
      ELSE LET posts == [i \in 1..Len(f.data.times) |-> post]
           IN  IF drupal.post = "http_error"
                 THEN Out(FALSE, TRUE, <<uuid_get, nid_get>> \o posts)
               ELSE Out(FALSE, drupal.patch = "ok",
                        <<uuid_get, nid_get>> \o posts \o <<patch>>)

(***************************************************************************)
(* The inputs of the extraction pipeline.                                  *)
(***************************************************************************)
\* "Sunday Italian Mass: 8:00 AM, 10am"
LineSunday == <<DayTok("Sunday"), Word("italian"), Word("mass"),
                ColonTok(8, 0, "AM"), BareTok(10, "AM")>>
\* "Monday-Friday 9:15 AM"
LineWeekdays == <<RangeTok("Monday", "Friday"), ColonTok(9, 15, "AM")>>
\* "Note: No 7am Mass this week"
LineNote == <<Word("note:"), Word("no"), BareTok(7, "AM"), Word("mass")>>

\* the elements of a page: those the selectors of the templates match, and
\* paragraphs that none of them matches
Elements == {Element("#mass-times", LineSunday), Element("#mass-times", LineNote),
             Element(".schedule", LineWeekdays),
             Element("p", LineSunday), Element("p", LineWeekdays)}

Pages == SeqUpTo(Elements, MaxElems)

\* the lines of a PDF, inside or outside the region of the templates
PdfLines == {PdfLine(TRUE, LineSunday), PdfLine(TRUE, LineWeekdays),
             PdfLine(FALSE, LineNote), PdfLine(FALSE, LineSunday)}

Pdfs == {Pdf(ls, TRUE) : ls \in SeqUpTo(PdfLines, MaxElems)} \cup {Pdf(<<>>, FALSE)}

Url == "https://example.com/mass-times"

WebTemplates == {WebTemplate(Url, "#mass-times", <<".schedule">>),
                 WebTemplate(Url, "", <<"[bad", ".schedule", "#mass-times">>)}

ZeroRegion == [x_min |-> 0, y_min |-> 0, x_max |-> 0, y_max |-> 0]
GoodRegion == [x_min |-> 0, y_min |-> 40, x_max |-> 200, y_max |-> 300]
MalformedRegion == [x_max |-> 200]

PdfTemplates == {PdfTemplate("", ZeroRegion, TRUE),
                 PdfTemplate(Url, GoodRegion, TRUE),
                 PdfTemplate(Url, ZeroRegion, FALSE),
                 PdfTemplate(Url, MalformedRegion, TRUE)}

\* the sub-templates of a template: none, a web one, a PDF one, or both
SubTemplates ==
  {<<None, None>>}
  \cup {<<Some(w), None>> : w \in WebTemplates}
  \cup {<<None, Some(q)>> : q \in PdfTemplates}
  \cup {<<Some(WebTemplate(Url, "#mass-times", <<".schedule">>)),
          Some(PdfTemplate(Url, ZeroRegion, FALSE))>>}

\* baseline_times with validation_rules.min_weekly_masses
BaselineRules ==
  {<<bt, mn>> : bt \in {<<>>}, mn \in {None, Some(0), Some(2)}}
  \cup {<<<<[day |-> "Sunday", times |-> <<>>]>>, Some(2)>>}
  \cup {<<<<[day |-> "Saturday", times |-> <<"6:00 PM">>],
            [day |-> "Sunday", times |-> <<"8:00 AM", "10:00 AM">>]>>, mn>> :
           mn \in {None, Some(2)}}

Templates ==
  {ParishTemplate(st, sub[1], sub[2], br[1], br[2]) :
     st \in {"", "website_page", "structured_data", "pdf_bulletin", "pdf_region_regex"},
     sub \in SubTemplates,
     br \in BaselineRules}

LlmTimes == <<MassTimeFull("Sunday", "10:00 AM", "Regular", "English", "")>>

LlmAnswers ==
  {LlmAnswer(k, <<>>, 1000, 100) :
     k \in {"import_error", "api_error", "bad_fence", "bad_json", "not_object"}}
  \cup {LlmAnswer("ok", ts, 1000, 100) : ts \in {<<>>, LlmTimes}}

(***************************************************************************)
(* The inputs of validation and of the Drupal sync.                        *)
(***************************************************************************)
WeekendTimes == <<MassTime("Saturday", "6:00 PM"), MassTime("Sunday", "8:00 AM"),
                  MassTime("Sunday", "10:00 AM")>>

TimesLists == {<<>>,
               <<MassTime("Sunday", "10:00 AM")>>,
               WeekendTimes,
               <<MassTime("Monday", "9:15 AM"), MassTime("Tuesday", "9:15 AM")>>}

\* tier, confidence and status of a result: as extract leaves them, or as an
\* earlier validation left them
Outcomes == {<<1, 100, "confirmed">>, <<2, 85, "confirmed">>, <<3, 70, "provisional">>,
             <<1, 0, "flagged">>, <<2, 30, "flagged">>}

ResultWith(parish_id, times, outcome) ==
  [ExtractionResult(parish_id, "website_page") EXCEPT
     !.times = times, !.tier = outcome[1], !.confidence = outcome[2],
     !.validation_status = outcome[3]]

ValidateResults == {ResultWith("test-parish", ts, o) : ts \in TimesLists, o \in Outcomes}

RuleSets ==
  {Rules(mn, mx, es, al) : mn \in {None, Some(1)}, mx \in {None, Some(2)},
                           es \in {None, Some(1), Some(3)}, al \in {None, Some(FALSE)}}

PreviousTimes == {None} \cup {Some(ts) : ts \in TimesLists}

\* the results the driver validates and writes: nothing extracted, too few
\* masses for the default rules, and enough masses for the parish's rules
WrittenResults ==
  {validate_extraction(ResultWith(p, ts, <<2, 85, "confirmed">>),
                       Rules(mn, None, None, None), None) :
     p \in {"st-mary"}, ts \in {<<>>, WeekendTimes}, mn \in {None, Some(1)}}
  \cup {ResultWith("", <<>>, <<1, 0, "flagged">>)}

Files == {File(FALSE, <<>>)} \cup {File(TRUE, save_result(r)) : r \in WrittenResults}

\* sorted(results_dir.glob('*.json')): the files of a directory, in name order
ResultDirs == SeqUpTo(Files, MaxFiles)

DrupalAnswers ==
  {DrupalAnswer(uuid, nid, post, patch) :
     uuid \in {None, Some("uuid-1")}, nid \in {None, Some(0), Some(12)},
     post \in {"ok", "http_error", "bad_body"}, patch \in {"ok", "http_error"}}

\* the results cross_reference is given: times that overlap by 4 of 5
\* (80%), by 5 of 6 and by 4 of 6, from sources of three priorities
WeekdayTimes == [i \in 1..5 |-> MassTime(DAYS_FULL[i], "9:15 AM")]

CrossTimes == {<<>>, SubSeq(WeekdayTimes, 1, 4), WeekdayTimes,
               WeekdayTimes \o <<MassTime("Sunday", "10:00 AM")>>}

CrossResults ==
  {[ResultWith("test-parish", ts, o) EXCEPT !.source_type = st] :
     st \in {"ical_feed", "pdf_bulletin", "facebook_page"},
     ts \in CrossTimes,
     o \in {<<1, 100, "confirmed">>, <<2, 95, "provisional">>, <<3, 70, "provisional">>}}

ResultLists == SeqUpTo(CrossResults, MaxResults)

(***************************************************************************)
(* State.                                                                  *)
(***************************************************************************)
VARIABLES
  \* one Extractor.extract call
  pc,              \* "idle", "tier1", "tier2", "tier3", "done" (returned), "raised"
  claude_api_key,  \* Extractor.claude_api_key
  fallback_model,  \* Extractor.fallback_model
  template,        \* the call's template
  dry_run,         \* the call's dry_run
  result,          \* the ExtractionResult being built, then returned
  text,            \* the fetched text
  answers,         \* what the fetcher answered during the call
  fetched,         \* what _fetch_content returned
  asked,           \* the fetcher calls _fetch_content made
  attempts,        \* the tiers attempted so far, in order
  llm_calls,       \* the messages.create calls made so far
  llm_answer,      \* what the LLM side answered in Tier 3, if it was entered
  previous,        \* the result of the run before, when extract is run again
  \* one validate_extraction call
  v_pc,             \* "idle", "done"
  v_before,         \* the result as it was given
  v_rules,          \* template_rules
  v_previous_times, \* previous_times
  v_issues,         \* the issues found
  v_result,         \* the result as it is returned
  \* one DrupalSync
  sync_pc,         \* "idle", "sync_all", "done", "raised"
  results_dir,     \* the result files being synced, in order
  sync_next,       \* the position of sync_all in results_dir
  requests,        \* the requests the session has sent, in order
  stats,           \* the counts of sync_all
  \* one cross_reference call
  x_pc,            \* "idle", "done"
  x_results,       \* the results as they were given
  x_best,          \* what the call returned
  \* one Scraper and the threads calling it
  now,                      \* time.time(), in seconds
  _last_request_by_domain,  \* domain -> the time _rate_limit recorded
  _robots_cache,            \* domain -> the RobotFileParser kept for it
  sent,                     \* the requests sent to the network, in order
  workers,                  \* the threads that call the Scraper
  s_pc,                     \* per thread: where it is in its call
  s_call,                   \* per thread: the method called and its url
  s_attempt,                \* per thread: attempt, the loop variable
  s_wake,                   \* per thread: when its time.sleep ends
  s_outcomes,               \* per thread: how the attempts of the call ended
  s_ret,                    \* per thread: what the last call returned
  s_calls,                  \* per thread: the calls begun so far
  \* one TemplateBuilder
  b_pc,            \* "idle", "built", "composed", "saved", "loaded"
  b_template,      \* what the builder returned, or the template a caller made
  templates_dir,   \* parish id -> the dict in the file of that name, if any
  b_saved,         \* the template save_template was given
  b_loaded,        \* what load_template was asked for and returned
  \* run_extract.main, run once per extraction cycle, and its results directory
  d_pc,            \* "idle", "loop", "exited"
  d_args,          \* args: dry_run, shadow, parish
  d_templates,     \* templates, as loaded and filtered
  d_next,          \* the position of the loop in templates
  d_extracted,     \* what extractor.extract did for the templates passed so far
  d_results,       \* results
  d_failures,      \* failures
  d_files,         \* the results directory: file name -> what the file holds
  d_written,       \* everything save_result has written, in order
  d_clock,         \* datetime.now(), one tick per result made
  d_exit,          \* the exit code of the cycle, once it has ended
  d_cycles,        \* the cycles begun so far
  \* one call of a function that keeps no state
  call_fn,         \* the function called, "" before any call
  call_args,       \* its arguments
  call_ret         \* what it returned

extractVars == <<pc, claude_api_key, fallback_model, template, dry_run, result, text,
                 answers, fetched, asked, attempts, llm_calls, llm_answer, previous>>

validateVars == <<v_pc, v_before, v_rules, v_previous_times, v_issues, v_result>>

syncVars == <<sync_pc, results_dir, sync_next, requests, stats>>

crossVars == <<x_pc, x_results, x_best>>

scraperVars == <<now, _last_request_by_domain, _robots_cache, sent, workers, s_pc,
                 s_call, s_attempt, s_wake, s_outcomes, s_ret, s_calls>>

builderVars == <<b_pc, b_template, templates_dir, b_saved, b_loaded>>

driverVars == <<d_pc, d_args, d_templates, d_next, d_extracted, d_results, d_failures,
                d_files, d_written, d_clock, d_exit, d_cycles>>

callVars == <<call_fn, call_args, call_ret>>

vars == <<extractVars, validateVars, syncVars, crossVars, scraperVars, builderVars,
          driverVars, callVars>>

\* the state of everything but one part
otherThanExtract ==
  <<validateVars, syncVars, crossVars, scraperVars, builderVars, driverVars, callVars>>
otherThanValidate ==
  <<extractVars, syncVars, crossVars, scraperVars, builderVars, driverVars, callVars>>
otherThanSync ==
  <<extractVars, validateVars, crossVars, scraperVars, builderVars, driverVars, callVars>>
otherThanCross ==
  <<extractVars, validateVars, syncVars, scraperVars, builderVars, driverVars, callVars>>
otherThanScraper ==
  <<extractVars, validateVars, syncVars, crossVars, builderVars, driverVars, callVars>>
otherThanBuilder ==
  <<extractVars, validateVars, syncVars, crossVars, scraperVars, driverVars, callVars>>
otherThanDriver ==
  <<extractVars, validateVars, syncVars, crossVars, scraperVars, builderVars, callVars>>
otherThanCall ==
  <<extractVars, validateVars, syncVars, crossVars, scraperVars, builderVars, driverVars>>

\* Extractor(...), and no call made yet
ExtractInit ==
  /\ pc = "idle"
  /\ claude_api_key \in {"", "sk-test"}
  /\ fallback_model = "claude-sonnet-4-5"
  /\ template = ParishTemplate("", None, None, <<>>, None)
  /\ dry_run = FALSE
  /\ result = ExtractionResult("", "website_page")
  /\ text = <<>>
  /\ answers = Answers(None, None, None)
  /\ fetched = None
  /\ asked = {}
  /\ attempts = <<>>
  /\ llm_calls = 0
  /\ llm_answer = None
  /\ previous = None

\* no validate_extraction call made yet
ValidateInit ==
  /\ v_pc = "idle"
  /\ v_before = ExtractionResult("", "website_page")
  /\ v_rules = Rules(None, None, None, None)
  /\ v_previous_times = None
  /\ v_issues = <<>>
  /\ v_result = ExtractionResult("", "website_page")

\* DrupalSync(...), and no request sent yet
SyncInit ==
  /\ sync_pc = "idle"
  /\ results_dir = <<>>
  /\ sync_next = 0
  /\ requests = <<>>
  /\ stats = [synced |-> 0, skipped |-> 0, failed |-> 0]

\* no cross_reference call made yet
CrossInit ==
  /\ x_pc = "idle"
  /\ x_results = <<>>
  /\ x_best = None

\* source_url of extract
SourceUrl(t) ==
  IF IsSome(t.web_template) THEN Get(t.web_template).url
  ELSE IF IsSome(t.pdf_template) /\ Get(t.pdf_template).bulletin_page_url # ""
    THEN Get(t.pdf_template).bulletin_page_url
  ELSE ""

\* the flagged result with its confidence left as it was
FlaggedKeepsConfidence(r) == [r EXCEPT !.validation_status = "flagged"]

\* the result when nothing was extracted
Flagged(r) == [r EXCEPT !.validation_status = "flagged", !.confidence = 0]

\* Extractor.extract, up to the fetched content
extract_run(t, d, ans) ==
  /\ template' = t
  /\ dry_run' = d
  /\ answers' = ans
  /\ attempts' = <<>>
  /\ llm_calls' = 0
  /\ llm_answer' = None
  /\ UNCHANGED <<claude_api_key, fallback_model>>
  /\ IF t.source_type # "" /\ t.source_type \notin SourceTypeValues
       THEN \* SourceType(template.source_type) raises ValueError
            /\ pc' = "raised"
            /\ UNCHANGED <<result, text, fetched, asked>>
       ELSE LET r0 == [ExtractionResult(t.parish_id,
                         IF t.source_type # "" THEN t.source_type ELSE "website_page")
                       EXCEPT !.source_url = SourceUrl(t)]
                got == _fetch_content(t, ans)
            IN  /\ asked' = got.asked
                /\ IF got.raised
                     THEN /\ pc' = "raised"
                          /\ UNCHANGED <<result, text, fetched>>
                   ELSE IF ~IsSome(got.value)
                     THEN /\ pc' = "done"
                          /\ result' = Flagged(r0)
                          /\ fetched' = None
                          /\ UNCHANGED text
                   ELSE /\ pc' = "tier1"
                        /\ result' = [r0 EXCEPT !.content_hash = Get(got.value).content_hash]
                        /\ fetched' = got.value
                        /\ text' = Get(got.value).text

\* a first call of extract
extract(t, d, ans) ==
  /\ pc = "idle"
  /\ extract_run(t, d, ans)
  /\ UNCHANGED <<previous, otherThanExtract>>

\* extract is called again on the same Extractor, with the same template and
\* dry_run, and the fetcher returns the same bytes
ExtractAgain ==
  /\ pc = "done"
  /\ previous = None
  /\ previous' = Some(result)
  /\ extract_run(template, dry_run, answers)
  /\ UNCHANGED otherThanExtract

\* extract, Tier 1
Tier1 ==
  /\ pc = "tier1"
  /\ attempts' = Append(attempts, 1)
  /\ LET tier1_result == _tier1_static(template, text)
     IN  IF IsSome(tier1_result)
           THEN /\ result' = [result EXCEPT !.times = Get(tier1_result), !.tier = 1,
                                            !.confidence = 100,
                                            !.validation_status = "confirmed"]
                /\ pc' = "done"
           ELSE /\ pc' = "tier2"
                /\ UNCHANGED result
  /\ UNCHANGED <<claude_api_key, fallback_model, template, dry_run, text, answers, fetched,
                 asked, llm_calls, llm_answer, previous, otherThanExtract>>

\* extract, Tier 2
Tier2 ==
  /\ pc = "tier2"
  /\ attempts' = Append(attempts, 2)
  /\ LET tier2_result == _tier2_code(template, text)
     IN  IF IsSome(tier2_result)
           THEN /\ result' = [result EXCEPT !.times = Get(tier2_result), !.tier = 2,
                                            !.confidence = 85,
                                            !.validation_status = "confirmed"]
                /\ pc' = "done"
           ELSE /\ pc' = "tier3"
                /\ UNCHANGED result
  /\ UNCHANGED <<claude_api_key, fallback_model, template, dry_run, text, answers, fetched,
                 asked, llm_calls, llm_answer, previous, otherThanExtract>>

\* the Tier-3 condition without dry_run
Tier3GuardIgnoresDryRun == claude_api_key # ""

\* whether extract enters Tier 3
Tier3Guard == claude_api_key # "" /\ ~dry_run

\* extract, Tier 3 and the end of the call
Tier3(llm) ==
  /\ pc = "tier3"
  /\ pc' = "done"
  /\ IF Tier3Guard
       THEN LET got == _tier3_llm(template, text, llm)
            IN  /\ attempts' = Append(attempts, 3)
                /\ llm_calls' = llm_calls + got.calls
                /\ llm_answer' = Some(llm)
                /\ IF IsSome(got.times)
                     THEN result' = [result EXCEPT !.times = Get(got.times), !.tier = 3,
                                                   !.confidence = 70,
                                                   !.validation_status = "provisional",
                                                   !.llm_model = Some(fallback_model),
                                                   !.llm_cost_usd = got.cost]
                     ELSE result' = Flagged(result)
       ELSE /\ result' = Flagged(result)
            /\ UNCHANGED <<attempts, llm_calls, llm_answer>>
  /\ UNCHANGED <<claude_api_key, fallback_model, template, dry_run, text, answers, fetched,
                 asked, previous, otherThanExtract>>

\* the answers of the fetcher, for the calls the template leads to
FetchAnswers(t) ==
  IF t.source_type = "website_page" /\ IsSome(t.web_template)
    THEN {Answers(page, None, None) : page \in {None} \cup {Some(pg) : pg \in Pages}}
  ELSE IF t.source_type \in PdfSourceTypes /\ IsSome(t.pdf_template)
          /\ Get(t.pdf_template).bulletin_page_url # ""
    THEN {Answers(None, None, None), Answers(None, Some(Url), None)}
         \cup {Answers(None, Some(Url), Some(pdf)) : pdf \in Pdfs}
  ELSE {Answers(None, None, None)}

\* a caller calls extract, and the fetcher answers
ExtractCall ==
  /\ pc = "idle"
  /\ \E t \in Templates, d \in BOOLEAN : \E ans \in FetchAnswers(t) : extract(t, d, ans)

\* Tier 3 with the answer of the LLM side
Tier3Call ==
  /\ pc = "tier3"
  /\ \E llm \in LlmAnswers : Tier3(llm)

\* a caller calls validate_extraction
Validate(r, rules, previous_times) ==
  /\ v_pc = "idle"
  /\ v_pc' = "done"
  /\ v_before' = r
  /\ v_rules' = rules
  /\ v_previous_times' = previous_times
  /\ v_issues' = IF r.times = <<>> THEN <<>> ELSE Issues(r.times, rules, previous_times)
  /\ v_result' = validate_extraction(r, rules, previous_times)
  /\ UNCHANGED otherThanValidate

ValidateCall ==
  /\ v_pc = "idle"
  /\ \E r \in ValidateResults, rules \in RuleSets, previous_times \in PreviousTimes :
       Validate(r, rules, previous_times)

\* a caller calls sync_extraction on one result file
SyncExtraction(f, drupal) ==
  /\ sync_pc = "idle"
  /\ LET out == sync_extraction(f, drupal)
     IN  /\ sync_pc' = IF out.raised THEN "raised" ELSE "done"
         /\ requests' = requests \o out.requests
  /\ results_dir' = <<f>>
  /\ UNCHANGED <<sync_next, stats, otherThanSync>>

SyncExtractionCall ==
  /\ sync_pc = "idle"
  /\ \E f \in Files, drupal \in DrupalAnswers : SyncExtraction(f, drupal)

\* DrupalSync.sync_all, up to its loop
SyncAllStart ==
  /\ sync_pc = "idle"
  /\ \E dir \in ResultDirs :
       /\ results_dir' = dir
       /\ sync_pc' = IF dir = <<>> THEN "done" ELSE "sync_all"
  /\ sync_next' = 1
  /\ stats' = [synced |-> 0, skipped |-> 0, failed |-> 0]
  /\ UNCHANGED <<requests, otherThanSync>>

\* DrupalSync.sync_all, one round of its loop
SyncAllFile(drupal) ==
  /\ sync_pc = "sync_all"
  /\ LET out == sync_extraction(results_dir[sync_next], drupal)
     IN  /\ requests' = requests \o out.requests
         /\ stats' = IF ~out.raised /\ out.success
                       THEN [stats EXCEPT !.synced = @ + 1]
                       ELSE [stats EXCEPT !.failed = @ + 1]
  /\ sync_next' = sync_next + 1
  /\ sync_pc' = IF sync_next = Len(results_dir) THEN "done" ELSE "sync_all"
  /\ UNCHANGED <<results_dir, otherThanSync>>

SyncAllStep ==
  /\ sync_pc = "sync_all"
  /\ \E drupal \in DrupalAnswers : SyncAllFile(drupal)

\* a caller calls cross_reference
CrossReference(results) ==
  /\ x_pc = "idle"
  /\ x_pc' = "done"
  /\ x_results' = results
  /\ x_best' = cross_reference(results)
  /\ UNCHANGED otherThanCross

CrossReferenceCall ==
  /\ x_pc = "idle"
  /\ \E results \in ResultLists : CrossReference(results)

\* the results of other sources of the parish that cross_reference is given
\* along with r: none, one with the times of r, one with other times
OtherSources(r) ==
  {<<>>}
  \cup {<<[r EXCEPT !.source_type = st, !.confidence = c]>> :
          st \in {"ical_feed", "facebook_page"}, c \in {70, 100}}
  \cup {<<[ResultWith(r.parish_id, ts, <<2, 85, "provisional">>) EXCEPT
             !.source_type = "ical_feed"]>> : ts \in {<<>>, WeekdayTimes}}

\* extract is called for another template once the call before has returned
ExtractAnew(t, d, ans) ==
  /\ pc = "done"
  /\ extract_run(t, d, ans)
  /\ UNCHANGED <<previous, otherThanExtract>>

\* the issues a result may hold before it is validated once more
MaxChanges == 2

\* validate_extraction is called on the result extract returned, which it
\* modifies in place
ValidateExtracted(rules, previous_times) ==
  /\ pc = "done"
  /\ Len(result.changes_from_previous) < MaxChanges
  /\ result' = validate_extraction(result, rules, previous_times)
  /\ UNCHANGED <<pc, claude_api_key, fallback_model, template, dry_run, text, answers,
                 fetched, asked, attempts, llm_calls, llm_answer, previous>>
  /\ UNCHANGED otherThanExtract

\* cross_reference is called on the result extract returned and the results
\* of other sources; it modifies the best of them in place
CrossReferenceExtracted(others) ==
  /\ pc = "done"
  /\ \A i \in 1..Len(others) : others[i] # result
  /\ LET results == <<result>> \o others
         best == cross_reference(results)
     IN  result' = IF Len(results) > 1 /\ SortResults(results)[1] = result
                     THEN Get(best) ELSE result
  /\ UNCHANGED <<pc, claude_api_key, fallback_model, template, dry_run, text, answers,
                 fetched, asked, attempts, llm_calls, llm_answer, previous>>
  /\ UNCHANGED otherThanExtract

\* the templates and pages of the calls whose result is then validated and
\* cross-referenced: web templates with every baseline, a page that cannot be
\* fetched, and pages with and without the section and its times
PipelineTemplates ==
  {ParishTemplate("website_page", Some(WebTemplate(Url, "#mass-times", <<".schedule">>)),
                  None, br[1], br[2]) : br \in BaselineRules}

PipelineAnswers ==
  {Answers(page, None, None) :
     page \in {None, Some(<<>>), Some(<<Element("#mass-times", LineSunday)>>),
               Some(<<Element("#mass-times", LineNote)>>),
               Some(<<Element(".schedule", LineWeekdays)>>)}}

PipelineExtractCall ==
  /\ pc = "idle"
  /\ \E t \in PipelineTemplates, d \in BOOLEAN, ans \in PipelineAnswers : extract(t, d, ans)

ExtractAnewCall ==
  /\ pc = "done"
  /\ \E t \in PipelineTemplates, d \in BOOLEAN, ans \in PipelineAnswers :
       ExtractAnew(t, d, ans)

ValidateExtractedCall ==
  /\ pc = "done"
  /\ \E rules \in RuleSets, previous_times \in PreviousTimes :
       ValidateExtracted(rules, previous_times)

CrossReferenceExtractedCall ==
  /\ pc = "done"
  /\ \E others \in OtherSources(result) : CrossReferenceExtracted(others)

(***************************************************************************)
(* scraper.py: one Scraper, its rate limit, its robots.txt check and its   *)
(* retries.  Time is counted in whole seconds.  A thread that calls the    *)
(* Scraper takes the steps of the method one after another; the steps of   *)
(* different threads interleave, since the Scraper holds no lock.          *)
(***************************************************************************)
REQUEST_DELAY == 2
MAX_RETRIES == 3

Workers == {"w1", "w2"}

Domains == {"a.example", "b.example"}
PrivatePath == "/private/bulletin.pdf"
ScraperUrl(domain, path) == [domain |-> domain, path |-> path]
Urls ==
  {ScraperUrl("a.example", "/mass-times"), ScraperUrl("a.example", PrivatePath),
   ScraperUrl("b.example", "/mass-times")}
\* urlparse(url).netloc
Netloc(url) == url.domain
RobotsUrl(url) == ScraperUrl(Netloc(url), "/robots.txt")

\* a RobotFileParser: "unread" as constructed, or after read()
RobotFileParser(state, disallow) == [state |-> state, disallow |-> disallow]
\* what rp.read() leaves behind; an exception leaves a new parser behind
RobotsReads ==
  {RobotFileParser("unread", {}), RobotFileParser("disallow_all", {}),
   RobotFileParser("parsed", {}), RobotFileParser("parsed", {PrivatePath})}
can_fetch(rp, url) ==
  CASE rp.state = "disallow_all" -> FALSE
    [] rp.state = "allow_all" -> TRUE
    [] rp.state = "unread" -> FALSE
    [] OTHER -> url.path \notin rp.disallow

\* what the server answers: a status and the content, here the hrefs of the
\* links to PDF files in it
Response(status, content) == [status |-> status, content |-> content]
Bodies == {<<>>, <<"/bulletins/old.pdf", "/bulletins/new.pdf">>}
Responses ==
  {Response(200, b) : b \in Bodies} \cup {Response(st, <<>>) : st \in {404, 429, 503}}
\* raise_for_status raises an httpx.HTTPError; a transport error of
\* _client.get is one as well and takes the same path
RaisesHTTPError(resp) == resp.status >= 400

\* the hrefs pdf_link_pattern matches; "" filters nothing
LinkMatches(pattern, href) == pattern = "" \/ pattern = href
Call(method, url, pattern) == [method |-> method, url |-> url, pattern |-> pattern]
Calls ==
  {Call(method, url, "") : method \in {"fetch_page", "fetch_pdf"}, url \in Urls}
    \cup {Call("find_latest_pdf_link", ScraperUrl("a.example", "/mass-times"), pattern) :
            pattern \in {"", "/bulletins/old.pdf"}}

\* a request on the wire
Sent(by, call, url, at) == [by |-> by, call |-> call, url |-> url, at |-> at]

\* Scraper(), and the threads that will call it
ScraperInit(threads) ==
  /\ now = REQUEST_DELAY
  /\ _last_request_by_domain = [d \in Domains |-> 0]
  /\ _robots_cache = [d \in Domains |-> None]
  /\ sent = <<>>
  /\ workers = threads
  /\ s_pc = [w \in Workers |-> "idle"]
  /\ s_call = [w \in Workers |-> Call("", ScraperUrl("", ""), "")]
  /\ s_attempt = [w \in Workers |-> 0]
  /\ s_wake = [w \in Workers |-> 0]
  /\ s_outcomes = [w \in Workers |-> <<>>]
  /\ s_ret = [w \in Workers |-> None]
  /\ s_calls = [w \in Workers |-> 0]

\* a thread calls fetch_page, fetch_pdf or find_latest_pdf_link, some time
\* after its last call returned
Begin(w, call, pause) ==
  /\ s_pc[w] = "idle"
  /\ s_calls[w] < MaxCalls
  /\ now' = now + pause
  /\ s_call' = [s_call EXCEPT ![w] = call]
  /\ s_calls' = [s_calls EXCEPT ![w] = @ + 1]
  /\ s_attempt' = [s_attempt EXCEPT ![w] = 0]
  /\ s_outcomes' = [s_outcomes EXCEPT ![w] = <<>>]
  /\ s_ret' = [s_ret EXCEPT ![w] = None]
  /\ s_pc' = [s_pc EXCEPT ![w] = "check_robots"]
  /\ UNCHANGED <<_last_request_by_domain, _robots_cache, sent, workers, s_wake>>
  /\ UNCHANGED otherThanScraper

\* where the method goes once _check_robots has returned
AfterRobots(w, rp) ==
  IF can_fetch(rp, s_call[w].url)
  THEN s_pc' = [s_pc EXCEPT ![w] = "rate_limit"]
  ELSE s_pc' = [s_pc EXCEPT ![w] = "idle"]

\* _check_robots: the parser is in the cache, or robots.txt is requested
CheckRobots(w) ==
  /\ s_pc[w] = "check_robots"
  /\ LET cached == _robots_cache[Netloc(s_call[w].url)]
     IN IF IsSome(cached)
        THEN /\ AfterRobots(w, Get(cached))
             /\ UNCHANGED sent
        ELSE /\ sent' = Append(sent, Sent(w, s_calls[w], RobotsUrl(s_call[w].url), now))
             /\ s_pc' = [s_pc EXCEPT ![w] = "robots_read"]
  /\ UNCHANGED <<now, _last_request_by_domain, _robots_cache, workers, s_call,
                 s_attempt, s_wake, s_outcomes, s_ret, s_calls>>
  /\ UNCHANGED otherThanScraper

\* _check_robots: rp.read() ends, the parser is cached and asked
RobotsRead(w, rp) ==
  /\ s_pc[w] = "robots_read"
  /\ _robots_cache' = [_robots_cache EXCEPT ![Netloc(s_call[w].url)] = Some(rp)]
  /\ AfterRobots(w, rp)
  /\ UNCHANGED <<now, _last_request_by_domain, sent, workers, s_call, s_attempt, s_wake,
                 s_outcomes, s_ret, s_calls>>
  /\ UNCHANGED otherThanScraper

\* _rate_limit: last is read and compared
RateLimit(w) ==
  /\ s_pc[w] = "rate_limit"
  /\ LET last == _last_request_by_domain[Netloc(s_call[w].url)]
         elapsed == now - last
     IN IF elapsed < REQUEST_DELAY
        THEN /\ s_wake' = [s_wake EXCEPT ![w] = now + (REQUEST_DELAY - elapsed)]
             /\ s_pc' = [s_pc EXCEPT ![w] = "rate_sleep"]
        ELSE /\ s_pc' = [s_pc EXCEPT ![w] = "rate_record"]
             /\ UNCHANGED s_wake
  /\ UNCHANGED <<now, _last_request_by_domain, _robots_cache, sent, workers, s_call,
                 s_attempt, s_outcomes, s_ret, s_calls>>
  /\ UNCHANGED otherThanScraper

\* _rate_limit: time.sleep returns, not before the time asked for
RateLimitWake(w) ==
  /\ s_pc[w] = "rate_sleep"
  /\ now' = Max(now, s_wake[w])
  /\ s_pc' = [s_pc EXCEPT ![w] = "rate_record"]
  /\ UNCHANGED <<_last_request_by_domain, _robots_cache, sent, workers, s_call,
                 s_attempt, s_wake, s_outcomes, s_ret, s_calls>>
  /\ UNCHANGED otherThanScraper

\* _rate_limit: the time is recorded
RateLimitRecord(w) ==
  /\ s_pc[w] = "rate_record"
  /\ _last_request_by_domain' =
       [_last_request_by_domain EXCEPT ![Netloc(s_call[w].url)] = now]
  /\ s_pc' = [s_pc EXCEPT ![w] = "get"]
  /\ UNCHANGED <<now, _robots_cache, sent, workers, s_call, s_attempt, s_wake,
                 s_outcomes, s_ret, s_calls>>
  /\ UNCHANGED otherThanScraper

\* self._client.get(url): the request goes out
ClientGet(w) ==
  /\ s_pc[w] = "get"
  /\ sent' = Append(sent, Sent(w, s_calls[w], s_call[w].url, now))
  /\ s_pc' = [s_pc EXCEPT ![w] = "await"]
  /\ UNCHANGED <<now, _last_request_by_domain, _robots_cache, workers, s_call,
                 s_attempt, s_wake, s_outcomes, s_ret, s_calls>>
  /\ UNCHANGED otherThanScraper

\* the links find_latest_pdf_link keeps, as urljoin makes them
PdfLinks(call, body) ==
  SelectSeq(body, LAMBDA href : LinkMatches(call.pattern, href))

\* what the method returns for the content of a successful request
Returned(call, body) ==
  IF call.method = "find_latest_pdf_link"
  THEN LET pdf_links == PdfLinks(call, body)
       IN IF pdf_links = <<>> THEN None
          ELSE Some(ScraperUrl(Netloc(call.url), pdf_links[Len(pdf_links)]))
  ELSE Some(<<body, Sha256(body)>>)

\* a back-off that does not grow
BackoffFlat(attempt) == REQUEST_DELAY

\* seconds slept after a failed attempt
Backoff(attempt) == 2 ^ (attempt + 1)

\* the attempt ends: the method returns, or sleeps before the next attempt
Respond(w, resp, latency) ==
  /\ s_pc[w] = "await"
  /\ now' = now + latency
  /\ s_outcomes' = [s_outcomes EXCEPT ![w] = Append(@, [status |-> resp.status, content |-> resp.content, at |-> now'])]
  /\ IF ~RaisesHTTPError(resp)
     THEN /\ s_ret' = [s_ret EXCEPT ![w] = Returned(s_call[w], resp.content)]
          /\ s_pc' = [s_pc EXCEPT ![w] = "idle"]
          /\ UNCHANGED s_wake
     ELSE IF s_attempt[w] < MAX_RETRIES - 1
     THEN /\ s_wake' = [s_wake EXCEPT ![w] = now' + Backoff(s_attempt[w])]
          /\ s_pc' = [s_pc EXCEPT ![w] = "backoff"]
          /\ UNCHANGED s_ret
     ELSE /\ s_pc' = [s_pc EXCEPT ![w] = "idle"]
          /\ UNCHANGED <<s_ret, s_wake>>
  /\ UNCHANGED <<_last_request_by_domain, _robots_cache, sent, workers, s_call,
                 s_attempt, s_calls>>
  /\ UNCHANGED otherThanScraper

\* time.sleep(2 ** (attempt + 1)) returns and the loop goes on
BackoffWake(w) ==
  /\ s_pc[w] = "backoff"
  /\ now' = Max(now, s_wake[w])
  /\ s_attempt' = [s_attempt EXCEPT ![w] = @ + 1]
  /\ s_pc' = [s_pc EXCEPT ![w] = "rate_limit"]
  /\ UNCHANGED <<_last_request_by_domain, _robots_cache, sent, workers, s_call,
                 s_wake, s_outcomes, s_ret, s_calls>>
  /\ UNCHANGED otherThanScraper

BeginCall ==
  \E w \in workers :
    /\ s_pc[w] = "idle"
    /\ \E call \in Calls, pause \in {0, MaxPause} : Begin(w, call, pause)

CheckRobotsStep == \E w \in workers : CheckRobots(w)

RobotsReadStep ==
  \E w \in workers :
    /\ s_pc[w] = "robots_read"
    /\ \E rp \in RobotsReads : RobotsRead(w, rp)

RateLimitStep == \E w \in workers : RateLimit(w)

RateLimitWakeStep == \E w \in workers : RateLimitWake(w)

RateLimitRecordStep == \E w \in workers : RateLimitRecord(w)

ClientGetStep == \E w \in workers : ClientGet(w)

RespondStep ==
  \E w \in workers :
    /\ s_pc[w] = "await"
    /\ \E resp \in Responses, latency \in 0..MaxLatency : Respond(w, resp, latency)

BackoffWakeStep == \E w \in workers : BackoffWake(w)

\* a fan-out: every thread makes one call on URLs whose robots.txt forbids
\* nothing, and the server answers every request with the content
FanOutCalls == {c \in Calls : c.method # "find_latest_pdf_link"}
FanOutResponses == {Response(200, b) : b \in Bodies}

FanOutBegin ==
  \E w \in workers :
    /\ s_pc[w] = "idle"
    /\ s_calls[w] = 0
    /\ \E call \in FanOutCalls : Begin(w, call, 0)

FanOutRobotsRead ==
  \E w \in workers : RobotsRead(w, RobotFileParser("parsed", {}))

FanOutRespond ==
  \E w \in workers :
    /\ s_pc[w] = "await"
    /\ \E resp \in FanOutResponses, latency \in 0..MaxLatency : Respond(w, resp, latency)

(***************************************************************************)
(* template_builder.py: the templates with all their fields, the builders  *)
(* and the template files.                                                 *)
(***************************************************************************)
\* WebTemplate(): the defaults of the dataclass
WebTemplateDefaults ==
  [url |-> "", section_selector |-> "", fallback_selectors |-> <<>>,
   time_regex |-> "\\d{1,2}[:.]\\d{2}\\s*[AaPp]\\.?[Mm]\\.?",
   day_regex |-> "(Monday|Tuesday|Wednesday|Thursday|Friday|Saturday|Sunday)",
   encoding |-> "utf-8"]

\* PdfTemplate(): the defaults of the dataclass; sizes in tenths of a point
PdfTemplateDefaults ==
  [bulletin_page_url |-> "", pdf_link_pattern |-> "", mass_times_page |-> 0,
   bounding_region |-> [x_min |-> 0, y_min |-> 0, x_max |-> 0, y_max |-> 0],
   heading_text |-> <<>>, heading_font_size |-> 0, section_static |-> TRUE]

\* ParishTemplate(): the defaults of the dataclass; validation_accuracy in
\* hundredths
ParishTemplateDefaults ==
  [parish_id |-> "", parish_name |-> "", source_priority |-> <<>>, source_type |-> "",
   extraction_method |-> "", web_template |-> None, pdf_template |-> None,
   baseline_times |-> <<>>,
   change_indicators |-> <<"No Mass", "Mass cancelled", "changed to", "Note:", "Please note">>,
   language_markers |-> <<"Italian", "Vietnamese", "Latin", "Polish">>,
   special_mass_markers |-> <<"Vigil", "Reconciliation", "Adoration", "Latin", "Children">>,
   validation_rules |-> [min_weekly_masses |-> 5, max_weekly_masses |-> 20,
                         expected_sunday_count |-> 3, alert_if_all_change |-> TRUE],
   template_version |-> 1, created_at |-> "", last_validated |-> "",
   validation_accuracy |-> 0, build_method |-> "automated", notes |-> ""]

\* the keys to_dict always writes and from_dict copies
TemplateKeys ==
  {"parish_id", "parish_name", "source_priority", "source_type", "extraction_method",
   "baseline_times", "change_indicators", "language_markers", "special_mass_markers",
   "validation_rules", "template_version", "created_at", "last_validated",
   "validation_accuracy", "build_method", "notes"}
WebKeys ==
  {"url", "section_selector", "fallback_selectors", "time_regex", "day_regex", "encoding"}
PdfKeys ==
  {"bulletin_page_url", "pdf_link_pattern", "mass_times_page", "bounding_region",
   "heading_text", "heading_font_size", "section_static"}

\* a dict with no key
EmptyDict == [k \in {} |-> 0]

\* ParishTemplate.to_dict: a dict is a function on its keys
to_dict(t) ==
  LET d == [k \in TemplateKeys |-> t[k]]
      web == IF IsSome(t.web_template)
             THEN "web_template" :> [k \in WebKeys |-> Get(t.web_template)[k]]
             ELSE EmptyDict
      pdf == IF IsSome(t.pdf_template)
             THEN "pdf_template" :> [k \in PdfKeys |-> Get(t.pdf_template)[k]]
             ELSE EmptyDict
  IN  d @@ web @@ pdf

\* from_dict: the WebTemplate read from the dict, if it holds one
WebFromDict(d) ==
  IF "web_template" \in DOMAIN d /\ DOMAIN d["web_template"] # {}
  THEN Some([k \in WebKeys |-> IF k \in DOMAIN d["web_template"]
                               THEN d["web_template"][k] ELSE WebTemplateDefaults[k]])
  ELSE None

\* a from_dict that builds the PdfTemplate without reading its keys
PdfFromDictDefaults(d) ==
  IF "pdf_template" \in DOMAIN d /\ DOMAIN d["pdf_template"] # {}
  THEN Some(PdfTemplateDefaults)
  ELSE None

\* from_dict: the PdfTemplate read from the dict, if it holds one
PdfFromDict(d) ==
  IF "pdf_template" \in DOMAIN d /\ DOMAIN d["pdf_template"] # {}
  THEN Some([k \in PdfKeys |-> IF k \in DOMAIN d["pdf_template"]
                               THEN d["pdf_template"][k] ELSE PdfTemplateDefaults[k]])
  ELSE None

\* ParishTemplate.from_dict
from_dict(d) ==
  [k \in DOMAIN ParishTemplateDefaults |->
     IF k = "web_template" THEN WebFromDict(d)
     ELSE IF k = "pdf_template" THEN PdfFromDict(d)
     ELSE IF k \in DOMAIN d THEN d[k]
     ELSE ParishTemplateDefaults[k]]

\* has_mass_times_heading: the line holds a match of MASS_TIMES_HEADING_RE
has_mass_times_heading(line) == HasWord(line, "mass times")

\* An element of a page as the builder sees it: the selector _build_selector
\* gives it, what it is, and its text (one line)
Tag(sel, kind, line) == [sel |-> sel, kind |-> kind, line |-> line]

\* the priority of the strategy that makes the element a candidate, 0 if none
Priority(el) ==
  CASE el.kind = "heading_parent" -> 1
    [] el.kind = "id" -> 3
    [] el.kind = "class" -> 4
    [] el.kind = "table" ->
         IF find_days(el.line) # <<>> /\ find_times(el.line) # <<>> THEN 5 ELSE 0
    [] el.kind = "list" ->
         IF find_times(el.line) # <<>>
            /\ (find_days(el.line) # <<>> \/ has_mass_times_heading(el.line))
         THEN 6 ELSE 0
    [] OTHER -> 0

\* candidates.sort(key=priority): by priority, then as they were found
Candidates(soup) ==
  Flatten([p \in 1..6 |-> SelectSeq(soup, LAMBDA el : Priority(el) = p)])

\* TemplateBuilder._find_mass_times_section
_find_mass_times_section(soup) ==
  LET candidates == Candidates(soup)
  IN  IF candidates = <<>>
      THEN [section |-> None, selector |-> "", fallbacks |-> <<>>]
      ELSE [section |-> Some(candidates[1]), selector |-> candidates[1].sel,
            fallbacks |-> [i \in 1..Min(3, Len(candidates) - 1) |-> candidates[i + 1].sel]]

\* TemplateBuilder._extract_section_text
_extract_section_text(section) == <<section.line>>

\* TemplateBuilder.build_web_template; fetch_result is what fetch_page
\* returned, stamps the two values of datetime.now()
build_web_template(fetch_result, url, parish, stamps) ==
  IF ~IsSome(fetch_result) THEN None
  ELSE LET found == _find_mass_times_section(Get(fetch_result)[1])
       IN  IF ~IsSome(found.section) THEN None
           ELSE LET baseline_times ==
                      parse_day_time_block(_extract_section_text(Get(found.section)))
                IN  IF baseline_times = <<>> THEN None
                    ELSE Some([ParishTemplateDefaults EXCEPT
                           !.parish_id = parish.id,
                           !.parish_name = parish.name,
                           !.source_type = "website_page",
                           !.extraction_method = "css_selector_regex",
                           !.source_priority = <<"website_page">>,
                           !.web_template = Some([WebTemplateDefaults EXCEPT
                              !.url = url,
                              !.section_selector = found.selector,
                              !.fallback_selectors = found.fallbacks]),
                           !.baseline_times = baseline_times,
                           !.created_at = stamps[1],
                           !.last_validated = stamps[2]])

\* A line of a PDF as _group_chars_to_lines makes it: its text, and whether
\* its font is at least 0.9 times as large as a heading's (all headings of a
\* PDF have one size here).  The lines of a PDF are on one page, from the
\* top down; y is counted in lines.
TextLine(line, big) == [line |-> line, big |-> big]

\* the lines below the heading that belong to the region, as indices
RECURSIVE RegionBelow(_, _)
RegionBelow(lines, i) ==
  IF i > Len(lines) THEN <<>>
  ELSE IF find_times(lines[i].line) # <<>> \/ find_days(lines[i].line) # <<>>
  THEN <<i>> \o RegionBelow(lines, i + 1)
  ELSE IF lines[i].big /\ ~has_mass_times_heading(lines[i].line) THEN <<>>
  ELSE RegionBelow(lines, i + 1)

\* the first heading with content below it, from line i on
RECURSIVE FindHeading(_, _)
FindHeading(lines, i) ==
  IF i > Len(lines) THEN None
  ELSE IF has_mass_times_heading(lines[i].line) /\ RegionBelow(lines, i + 1) # <<>>
  THEN LET below == RegionBelow(lines, i + 1)
       IN  Some([page_num |-> 0,
                 region |-> [x_min |-> 0, y_min |-> i, x_max |-> 200,
                             y_max |-> below[Len(below)]],
                 heading_text |-> lines[i].line,
                 heading_size |-> 140])
  ELSE FindHeading(lines, i + 1)

\* TemplateBuilder._find_pdf_mass_times_section
_find_pdf_mass_times_section(pdf) == FindHeading(pdf, 1)

\* Scraper.extract_text_from_pdf, of the lines the builder sees
FullText(pdf) == [i \in 1..Len(pdf) |-> pdf[i].line]

\* Scraper.extract_text_from_region, of the lines the builder sees
RegionText(pdf, page_num, region) ==
  IF page_num >= 1 THEN <<>>
  ELSE LET last == Min(region.y_max, Len(pdf))
       IN  [i \in 1..Max(0, last - region.y_min + 1) |-> pdf[region.y_min + i - 1].line]

\* TemplateBuilder._classify_static_dynamic; similar: texts that differ are
\* still at least 95% alike
_classify_static_dynamic(pdf_bytes_list, page_num, region, similar) ==
  IF Len(pdf_bytes_list) < 2 THEN TRUE
  ELSE \A i, j \in 1..Len(pdf_bytes_list) :
         \/ RegionText(pdf_bytes_list[i], page_num, region)
              = RegionText(pdf_bytes_list[j], page_num, region)
         \/ similar

\* TemplateBuilder.build_pdf_template
build_pdf_template(pdf_bytes_list, parish, bulletin_page_url, pdf_link_pattern, stamps, similar) ==
  IF pdf_bytes_list = <<>> THEN None
  ELSE
    LET primary_pdf == pdf_bytes_list[1]
        section_info == _find_pdf_mass_times_section(primary_pdf)
        made == [ParishTemplateDefaults EXCEPT
                   !.parish_id = parish.id,
                   !.parish_name = parish.name,
                   !.source_type = "pdf_bulletin",
                   !.source_priority = <<"pdf_bulletin">>,
                   !.created_at = stamps[1],
                   !.last_validated = stamps[2]]
    IN  IF ~IsSome(section_info)
        THEN LET baseline_times == parse_day_time_block(FullText(primary_pdf))
             IN  IF baseline_times = <<>> THEN None
                 ELSE Some([made EXCEPT
                        !.extraction_method = "pdf_fulltext_regex",
                        !.pdf_template = Some([PdfTemplateDefaults EXCEPT
                           !.bulletin_page_url = bulletin_page_url,
                           !.pdf_link_pattern = pdf_link_pattern]),
                        !.baseline_times = baseline_times])
        ELSE LET info == Get(section_info)
                 region_times ==
                   parse_day_time_block(RegionText(primary_pdf, info.page_num, info.region))
                 baseline_times ==
                   IF region_times = <<>> THEN parse_day_time_block(FullText(primary_pdf))
                   ELSE region_times
                 is_static ==
                   _classify_static_dynamic(pdf_bytes_list, info.page_num, info.region, similar)
             IN  Some([made EXCEPT
                    !.extraction_method = "pdf_region_regex",
                    !.pdf_template = Some([PdfTemplateDefaults EXCEPT
                       !.bulletin_page_url = bulletin_page_url,
                       !.pdf_link_pattern = pdf_link_pattern,
                       !.mass_times_page = info.page_num,
                       !.bounding_region = info.region,
                       !.heading_text = info.heading_text,
                       !.heading_font_size = info.heading_size,
                       !.section_static = is_static]),
                    !.baseline_times = baseline_times])

\* the inputs of the builders
Parish(id, name) == [id |-> id, name |-> name]
Parishes == {Parish("st-mary", "St Mary"), Parish("st-john", "St John")}
ParishIds == {p.id : p \in Parishes}

\* "Mass Times", and "Sunday: see the noticeboard"
LineHeading == <<Word("mass times")>>
LineDayOnly == <<DayTok("Sunday"), Word("see"), Word("noticeboard")>>

Tags ==
  {Tag("#mass-times", "id", LineSunday), Tag("div.content", "heading_parent", LineDayOnly),
   Tag("table", "table", LineWeekdays), Tag("p", "p", LineSunday),
   Tag(".schedule", "class", LineNote), Tag("ul", "list", LineSunday)}
Soups == SeqUpTo(Tags, MaxElems)

TextLines ==
  {TextLine(LineHeading, TRUE), TextLine(LineSunday, FALSE), TextLine(LineDayOnly, FALSE),
   TextLine(LineNote, TRUE)}
BuilderPdfs == SeqUpTo(TextLines, MaxElems)
PdfLists == {<<>>} \cup {<<p>> : p \in BuilderPdfs}
              \cup {<<p, q>> : p \in BuilderPdfs, q \in BuilderPdfs}

Stamps ==
  {<<"2026-01-04T09:00:00.000001", "2026-01-04T09:00:00.000001">>,
   <<"2026-01-04T09:00:00.000001", "2026-01-04T09:00:00.000002">>}

\* templates a caller makes with ParishTemplate(...), sub-templates and all
ComposedTemplates ==
  LET web == Some([WebTemplateDefaults EXCEPT !.url = Url, !.encoding = "latin-1"])
      pdf == Some([PdfTemplateDefaults EXCEPT !.mass_times_page = 1,
                                              !.section_static = FALSE])
      manual == [ParishTemplateDefaults EXCEPT
                   !.parish_id = "st-mary", !.build_method = "manual",
                   !.notes = "times checked by phone", !.template_version = 2,
                   !.validation_accuracy = 95,
                   !.validation_rules = [min_weekly_masses |-> 1]]
  IN  {ParishTemplateDefaults, manual,
       [manual EXCEPT !.web_template = web],
       [manual EXCEPT !.pdf_template = pdf],
       [manual EXCEPT !.web_template = web, !.pdf_template = pdf,
                      !.source_priority = <<"website_page", "pdf_bulletin">>]}

\* TemplateBuilder(...), an empty templates_dir, and no call made yet
BuilderInit ==
  /\ b_pc = "idle"
  /\ b_template = None
  /\ templates_dir = [id \in ParishIds \cup {""} |-> None]
  /\ b_saved = None
  /\ b_loaded = [parish_id |-> "", template |-> None]

\* a caller calls build_web_template
BuildWeb(fetch_result, url, parish, stamps) ==
  /\ b_pc = "idle"
  /\ b_pc' = "built"
  /\ b_template' = build_web_template(fetch_result, url, parish, stamps)
  /\ UNCHANGED <<templates_dir, b_saved, b_loaded>>
  /\ UNCHANGED otherThanBuilder

\* a caller calls build_pdf_template
BuildPdf(pdf_bytes_list, parish, bulletin_page_url, pdf_link_pattern, stamps, similar) ==
  /\ b_pc = "idle"
  /\ b_pc' = "built"
  /\ b_template' = build_pdf_template(pdf_bytes_list, parish, bulletin_page_url,
                                     pdf_link_pattern, stamps, similar)
  /\ UNCHANGED <<templates_dir, b_saved, b_loaded>>
  /\ UNCHANGED otherThanBuilder

\* a caller makes a template itself
Compose(t) ==
  /\ b_pc = "idle"
  /\ b_pc' = "composed"
  /\ b_template' = Some(t)
  /\ UNCHANGED <<templates_dir, b_saved, b_loaded>>
  /\ UNCHANGED otherThanBuilder

\* TemplateBuilder.save_template, of the template in hand; json.dump and
\* json.load keep a dict of strings, numbers, booleans, lists and dicts with
\* string keys as it is, so a file is the dict written to it
SaveTemplate ==
  /\ b_pc \in {"built", "composed"}
  /\ IsSome(b_template)
  /\ b_pc' = "saved"
  /\ templates_dir' = [templates_dir EXCEPT
                         ![Get(b_template).parish_id] = Some(to_dict(Get(b_template)))]
  /\ b_saved' = b_template
  /\ UNCHANGED <<b_template, b_loaded>>
  /\ UNCHANGED otherThanBuilder

\* TemplateBuilder.load_template
LoadTemplate(parish_id) ==
  /\ b_pc \in {"built", "composed", "saved"}
  /\ b_pc' = "loaded"
  /\ b_loaded' = [parish_id |-> parish_id,
                  template |-> IF ~IsSome(templates_dir[parish_id]) THEN None
                               ELSE Some(from_dict(Get(templates_dir[parish_id])))]
  /\ UNCHANGED <<b_template, templates_dir, b_saved>>
  /\ UNCHANGED otherThanBuilder

BuildWebCall ==
  /\ b_pc = "idle"
  /\ \E page \in Soups, fetched_ok \in BOOLEAN, parish \in Parishes, stamps \in Stamps :
       BuildWeb(IF fetched_ok THEN Some(<<page, Sha256(page)>>) ELSE None,
                Url, parish, stamps)

BuildPdfCall ==
  /\ b_pc = "idle"
  /\ \E pdfs \in PdfLists, parish \in Parishes, stamps \in Stamps, similar \in BOOLEAN :
       BuildPdf(pdfs, parish, Url, "bulletin", stamps, similar)

ComposeCall ==
  /\ b_pc = "idle"
  /\ \E t \in ComposedTemplates : Compose(t)

LoadTemplateCall == \E parish_id \in DOMAIN templates_dir : LoadTemplate(parish_id)

(***************************************************************************)
(* run_extract.py: main, one extraction cycle per run, and save_result     *)
(***************************************************************************)
MaxCycles == 2
MaxSaves == 3

\* a file of the templates directory: its name and the parish_id of the
\* template its JSON holds
TemplateFile(name, parish_id) == [name |-> name, parish_id |-> parish_id]

\* sorted(templates_dir.glob("*.json")): directories as the builder leaves them
\* (one <parish_id>.json per parish), and with a copy named <parish_id>.json.json
TemplateDirs ==
  {<<>>,
   <<TemplateFile("st-mary.json", "st-mary")>>,
   <<TemplateFile("st-mary.json", "st-mary"), TemplateFile("st-mary.json.json", "st-mary")>>,
   <<TemplateFile("st-john.json", "st-john"), TemplateFile("st-john.json.json", "st-john"),
     TemplateFile("st-mary.json", "st-mary"), TemplateFile("st-mary.json.json", "st-mary")>>}

\* TemplateBuilder.load_template(f) as load_templates calls it, with the path
\* of the file where the parish id is expected: the file read is f + ".json"
LoadTemplateAt(dir, f) ==
  LET path == f.name \o ".json"
      found == {i \in 1..Len(dir) : dir[i].name = path}
  IN  IF found = {} THEN None
      ELSE Some([ParishTemplate("website_page", None, None, <<>>, None) EXCEPT
                   !.parish_id = dir[CHOOSE i \in found : TRUE].parish_id])

RECURSIVE LoadFrom(_, _)
LoadFrom(dir, i) ==
  IF i > Len(dir) THEN <<>>
  ELSE LET loaded == LoadTemplateAt(dir, dir[i])
       IN  (IF IsSome(loaded) THEN <<Get(loaded)>> ELSE <<>>) \o LoadFrom(dir, i + 1)

load_templates(dir) == LoadFrom(dir, 1)

\* [t for t in templates if t.parish_id == args.parish]
ForParish(templates, parish) ==
  IF ~IsSome(parish) THEN templates
  ELSE SelectSeq(templates, LAMBDA t : t.parish_id = Get(parish))

Args(dry, shadow, parish) == [dry_run |-> dry, shadow |-> shadow, parish |-> parish]

\* what extractor.extract does for a parish: it raises, it returns the flagged
\* result of a parish none of whose sources could be fetched, or it returns times
Extracted(raised, r) == [raised |-> raised, result |-> r]

DriverExtracted(parish_id) ==
  {Extracted(TRUE, ExtractionResult(parish_id, "website_page")),
   Extracted(FALSE, Flagged(ExtractionResult(parish_id, "website_page"))),
   Extracted(FALSE, ResultWith(parish_id, WeekendTimes, <<1, 100, "confirmed">>)),
   Extracted(FALSE, ResultWith(parish_id, <<MassTime("Sunday", "10:00 AM")>>,
                               <<2, 85, "confirmed">>))}

\* validate_extraction(result, template) as main calls it: template_rules is
\* the ParishTemplate, whose get (validator.py line 38) is an AttributeError;
\* a result without times returns before that line
MainValidate(r) ==
  IF r.times = <<>>
    THEN [raised |-> FALSE, value |-> Flagged(r)]
    ELSE [raised |-> TRUE, value |-> r]

\* validation["valid"]: a TypeError unless validation holds that key
Subscript(validation, key) ==
  IF key \in DOMAIN validation
    THEN [raised |-> FALSE, value |-> validation[key]]
    ELSE [raised |-> TRUE, value |-> FALSE]

ResultFile(parish_id) == parish_id \o ".json"

ResultFiles == {ResultFile(id) : id \in ParishIds}

\* what save_result writes into the file: data, with extracted_at
Written(r, stamp) == [data |-> save_result(r), extracted_at |-> stamp]

\* save_result: output_file.write_text(...) on <parish_id>.json
WriteResult(files, r, stamp) ==
  [files EXCEPT ![ResultFile(r.parish_id)] = Some(Written(r, stamp))]

DriverInit ==
  /\ d_pc = "idle"
  /\ d_args = Args(FALSE, FALSE, None)
  /\ d_templates = <<>>
  /\ d_next = 1
  /\ d_extracted = <<>>
  /\ d_results = <<>>
  /\ d_failures = 0
  /\ d_files = [f \in ResultFiles |-> None]
  /\ d_written = <<>>
  /\ d_clock = 0
  /\ d_exit = None
  /\ d_cycles = 0

\* main, up to the loop: the templates are loaded and filtered
MainStart(dir, args) ==
  /\ d_pc \in {"idle", "exited"}
  /\ d_cycles < MaxCycles
  /\ d_cycles' = d_cycles + 1
  /\ d_args' = args
  /\ d_next' = 1
  /\ d_extracted' = <<>>
  /\ d_results' = <<>>
  /\ d_failures' = 0
  /\ LET templates == load_templates(dir)
         filtered == ForParish(templates, args.parish)
     IN  IF templates = <<>> \/ filtered = <<>>
           THEN \* sys.exit(1)
                /\ d_pc' = "exited"
                /\ d_exit' = Some(1)
                /\ d_templates' = <<>>
           ELSE /\ d_pc' = "loop"
                /\ d_exit' = None
                /\ d_templates' = filtered
  /\ UNCHANGED <<d_files, d_written, d_clock>>
  /\ UNCHANGED otherThanDriver

\* one pass of the loop over the templates
MainStep(extracted) ==
  /\ d_pc = "loop"
  /\ d_next <= Len(d_templates)
  /\ d_next' = d_next + 1
  /\ d_extracted' = Append(d_extracted, extracted)
  /\ d_clock' = d_clock + 1
  /\ LET shadowed == IF d_args.shadow
                       THEN [extracted.result EXCEPT !.validation_status = "provisional"]
                       ELSE extracted.result
         validation == MainValidate(shadowed)
         valid == Subscript(validation.value, "valid")
     IN  IF extracted.raised \/ validation.raised \/ valid.raised
           THEN \* except Exception
                /\ d_failures' = d_failures + 1
                /\ UNCHANGED <<d_results, d_files, d_written>>
           ELSE LET r == validation.value
                IN  /\ d_results' = Append(d_results, r)
                    /\ d_failures' = IF r.validation_status = "flagged"
                                       THEN d_failures + 1 ELSE d_failures
                    /\ IF ~d_args.dry_run
                         THEN /\ d_files' = WriteResult(d_files, r, d_clock)
                              /\ d_written' = Append(d_written, Written(r, d_clock))
                         ELSE UNCHANGED <<d_files, d_written>>
  /\ UNCHANGED <<d_pc, d_args, d_templates, d_exit, d_cycles>>
  /\ UNCHANGED otherThanDriver

\* main, after the loop
MainEnd ==
  /\ d_pc = "loop"
  /\ d_next > Len(d_templates)
  /\ d_pc' = "exited"
  /\ d_exit' = Some(IF d_failures > 0 THEN 1 ELSE 0)
  /\ UNCHANGED <<d_args, d_templates, d_next, d_extracted, d_results, d_failures, d_files,
                 d_written, d_clock, d_cycles>>
  /\ UNCHANGED otherThanDriver

\* an extraction cycle that writes the result it made for a parish
SaveResult(r) ==
  /\ d_pc = "idle"
  /\ Len(d_written) < MaxSaves
  /\ d_clock' = d_clock + 1
  /\ d_files' = WriteResult(d_files, r, d_clock)
  /\ d_written' = Append(d_written, Written(r, d_clock))
  /\ UNCHANGED <<d_pc, d_args, d_templates, d_next, d_extracted, d_results, d_failures,
                 d_exit, d_cycles>>
  /\ UNCHANGED otherThanDriver

MainStartCall ==
  \E dir \in TemplateDirs, dry \in BOOLEAN, shadow \in BOOLEAN,
     parish \in {None, Some("st-mary"), Some("st-paul")} :
    MainStart(dir, Args(dry, shadow, parish))

MainStepCall ==
  /\ d_pc = "loop"
  /\ d_next <= Len(d_templates)
  /\ \E extracted \in DriverExtracted(d_templates[d_next].parish_id) : MainStep(extracted)

SaveResultCall ==
  \E id \in ParishIds :
    \E extracted \in DriverExtracted(id) : ~extracted.raised /\ SaveResult(extracted.result)

(***************************************************************************)
(* parser.py: the functions called on the lines and texts below            *)
(***************************************************************************)
\* the most tokens of a line
MaxToks == 3

\* the most lines of a text
MaxLines == 2

\* day names in full and abbreviated, ranges (one wrapping past Sunday),
\* Weekday / Weekend, and times of each form: 9:10am, 10:00 AM, 5:12 pm,
\* 13:30pm (no valid hour), 10am, 8am, 17:00, 10:00
ParserToks ==
  {DayTok("Sunday"), DayTok("Monday"), AbbrevTok("Saturday"),
   RangeTok("Monday", "Friday"), RangeTok("Saturday", "Monday"),
   Word("weekday"), Word("weekend"), Word("mass"),
   ColonTok(9, 10, "AM"), ColonTok(10, 0, "AM"), ColonTok(5, 12, "PM"),
   ColonTok(13, 30, "PM"), BareTok(10, "AM"), BareTok(8, "AM"),
   H24Tok(17, 0), H24Tok(10, 0)}

ParserLines == SeqUpTo(ParserToks, MaxToks)

\* the lines of the texts given to parse_day_time_block: an empty line, lines
\* with a day and times (in and out of order, twice the same, 9:10am), a day
\* without a time, times without a day, a range and Weekday with a time
BlockLines ==
  {<<>>,
   <<DayTok("Sunday"), ColonTok(10, 0, "AM"), BareTok(8, "AM")>>,
   <<DayTok("Sunday"), BareTok(8, "AM"), ColonTok(10, 0, "AM")>>,
   <<DayTok("Sunday"), BareTok(8, "AM"), BareTok(8, "AM")>>,
   <<DayTok("Sunday"), ColonTok(9, 10, "AM")>>,
   <<DayTok("Sunday"), Word("mass")>>,
   <<BareTok(8, "AM"), H24Tok(17, 0)>>,
   <<RangeTok("Saturday", "Monday"), H24Tok(10, 0)>>,
   <<Word("weekday"), DayTok("Sunday"), BareTok(8, "AM")>>,
   <<Word("mass")>>}

BlockTexts == SeqUpTo(BlockLines, MaxLines)

(***************************************************************************)
(* discovery.py: ParishDiscovery.deduplicate.  Coordinates are counted in  *)
(* steps of 50 m on a grid; 0 is the default of Parish.lat and Parish.lng, *)
(* which the code reads as "no coordinates".                               *)
(***************************************************************************)
\* the most parishes of a list given to deduplicate
MaxParishes == 3

\* models.Parish, the fields deduplicate reads or writes
ParishEntry(id, name, lat, lng, website, phone) ==
  [id |-> id, name |-> name, address |-> "", lat |-> lat, lng |-> lng,
   website |-> website, phone |-> phone]

\* str.lower on the names of the parishes below
Lower(name) ==
  IF name \in {"St Mary", "ST MARY"} THEN "st mary"
  ELSE IF name = "St John" THEN "st john"
  ELSE name

\* haversine_km(...) < 0.1: closer than 100 m, that is two steps of the grid
Within100m(lat1, lng1, lat2, lng2) ==
  (lat2 - lat1) * (lat2 - lat1) + (lng2 - lng1) * (lng2 - lng1) < 4

name_match(existing, parish) ==
  existing.id = parish.id \/ Lower(existing.name) = Lower(parish.name)

close(existing, parish) ==
  /\ parish.lat # 0 /\ parish.lng # 0 /\ existing.lat # 0 /\ existing.lng # 0
  /\ Within100m(existing.lat, existing.lng, parish.lat, parish.lng)

\* the merge of a duplicate into the entry kept
Merge(existing, parish) ==
  [existing EXCEPT
     !.website = IF existing.website = "" /\ parish.website # ""
                   THEN parish.website ELSE existing.website,
     !.address = IF existing.address = "" /\ parish.address # ""
                   THEN parish.address ELSE existing.address,
     !.lat = IF existing.lat = 0 /\ parish.lat # 0 THEN parish.lat ELSE existing.lat,
     !.lng = IF existing.lat = 0 /\ parish.lat # 0 THEN parish.lng ELSE existing.lng,
     !.phone = IF existing.phone = "" /\ parish.phone # ""
                 THEN parish.phone ELSE existing.phone]

\* one pass of the outer loop: the parish is merged into the first entry of
\* result it duplicates, or appended
DedupOne(kept, parish) ==
  LET dups == {i \in 1..Len(kept) : name_match(kept[i], parish) \/ close(kept[i], parish)}
  IN  IF dups = {} THEN Append(kept, parish)
      ELSE LET first == CHOOSE i \in dups : \A j \in dups : i <= j
           IN  [kept EXCEPT ![first] = Merge(kept[first], parish)]

RECURSIVE DedupFrom(_, _)
DedupFrom(kept, all_parishes) ==
  IF all_parishes = <<>> THEN kept
  ELSE DedupFrom(DedupOne(kept, Head(all_parishes)), Tail(all_parishes))

\* ParishDiscovery.deduplicate
deduplicate(all_parishes) == DedupFrom(<<>>, all_parishes)

\* parishes as the sources list them: with and without coordinates, 50 m and
\* 1 km apart, names that differ in case only, with and without website or phone
DiscoveredParishes ==
  {ParishEntry("st-mary", "St Mary", 0, 0, "", ""),
   ParishEntry("st-mary", "St Mary", 0, 0, "https://stmary.example", ""),
   ParishEntry("st-mary-2", "ST MARY", 11, 10, "", "9870 1234"),
   ParishEntry("st-mary", "St Mary", 30, 10, "", ""),
   ParishEntry("st-john", "St John", 10, 10, "", ""),
   ParishEntry("st-john", "St John", 0, 0, "", "9870 5678"),
   ParishEntry("st-paul", "St Paul", 10, 11, "https://stpaul.example", ""),
   ParishEntry("st-paul", "St Paul", 30, 30, "", ""),
   ParishEntry("st-luke", "St Luke", 12, 10, "", "")}

ParishLists == SeqUpTo(DiscoveredParishes, MaxParishes)

(***************************************************************************)
(* The section of a page as a tree: template_builder._extract_section_text *)
(* and extractor._extract_section_from_html on the element the selector of *)
(* the template selects.  A text node holds the tokens of its string; the  *)
(* strings below hold day names, h:00 and h:30 times and heading words, so *)
(* that joining two of them, with or without a space, changes nothing in   *)
(* what the patterns of parser.py match in each.                           *)
(***************************************************************************)
\* a NavigableString, and a Tag with its children
TextNode(line) == [tag |-> "#text", line |-> line, children |-> <<>>]
El(tag, children) == [tag |-> tag, line |-> <<>>, children |-> children]

\* element._all_strings(strip=True): the strings below a node, in document
\* order, the empty ones left out
RECURSIVE Strings(_)
Strings(node) ==
  IF node.tag = "#text" THEN (IF node.line = <<>> THEN <<>> ELSE <<node.line>>)
  ELSE Flatten([i \in 1..Len(node.children) |-> Strings(node.children[i])])

\* element.get_text("\n", strip=True): one line per string
GetTextLines(node) == Strings(node)

\* element.get_text(strip=True): the strings joined by "" into one line
GetTextJoined(node) == Flatten(Strings(node))

\* element.find_all(tags): the elements below a node, in document order
RECURSIVE FindAll(_, _)
FindAll(node, tags) ==
  Flatten([i \in 1..Len(node.children) |->
             (IF node.children[i].tag \in tags THEN <<node.children[i]>> ELSE <<>>)
             \o FindAll(node.children[i], tags)])

\* " ".join(cells) of one row
RowLine(row) ==
  LET cells == FindAll(row, {"td", "th"})
  IN  Flatten([i \in 1..Len(cells) |-> GetTextJoined(cells[i])])

\* the lines of the rows of one table, the empty ones left out
TableLines(table) ==
  LET rows == FindAll(table, {"tr"})
  IN  Flatten([i \in 1..Len(rows) |->
                 IF RowLine(rows[i]) = <<>> THEN <<>> ELSE <<RowLine(rows[i])>>])

\* the text of each child that is not a table, the empty ones left out
ChildLines(section) ==
  Flatten([i \in 1..Len(section.children) |->
             LET child == section.children[i]
             IN  IF child.tag = "table" \/ GetTextJoined(child) = <<>> THEN <<>>
                 ELSE <<GetTextJoined(child)>>])

\* TemplateBuilder._extract_section_text, the lines it joins by "\n"
SectionText(section) ==
  LET tables == FindAll(section, {"table"})
      lines == Flatten([i \in 1..Len(tables) |-> TableLines(tables[i])])
                 \o ChildLines(section)
  IN  IF lines = <<>> THEN GetTextLines(section) ELSE lines

\* Extractor._extract_section_from_html once select_one has found the
\* element of the selector: element.get_text("\n", strip=True)
ElementText(element) == GetTextLines(element)

\* the strings of the sections: "Sunday 9:00 AM", "Saturday 6:00 PM",
\* "Sunday", "9:00 AM", "Mass Times"
SectionStrings ==
  {<<DayTok("Sunday"), ColonTok(9, 0, "AM")>>,
   <<DayTok("Saturday"), ColonTok(6, 0, "PM")>>,
   <<DayTok("Sunday")>>, <<ColonTok(9, 0, "AM")>>, <<Word("mass times")>>}

\* <p>Sunday 9:00 AM</p> ..., and <p><strong>Sunday</strong> 10:30 AM</p>
Paragraphs ==
  {El("p", <<TextNode(str)>>) : str \in SectionStrings}
  \cup {El("p", <<El("strong", <<TextNode(<<DayTok("Sunday")>>)>>),
                  TextNode(<<ColonTok(10, 30, "AM")>>)>>)}

ListItems == {El("li", <<TextNode(str)>>) : str \in SectionStrings}

\* <tr><td>Sunday</td><td>9:00 AM</td></tr> ...
Rows ==
  {El("tr", <<El("td", <<TextNode(<<DayTok(d)>>)>>), El("td", <<TextNode(<<tm>>)>>)>>) :
     d \in {"Sunday", "Saturday"}, tm \in {ColonTok(9, 0, "AM"), ColonTok(6, 0, "PM")}}
  \cup {El("tr", <<El("th", <<TextNode(<<Word("mass times")>>)>>)>>)}

\* the sections the builder selects: paragraphs in a container, a container
\* nested in a container, a list, a table in a container, a table
Sections ==
  {El("div", ps) : ps \in SeqUpTo(Paragraphs, MaxElems)}
  \cup {El("div", <<El("div", ps)>>) : ps \in SeqUpTo(Paragraphs, MaxElems)}
  \cup {El("ul", lis) : lis \in SeqUpTo(ListItems, MaxElems)}
  \cup {El("div", <<El("table", rows)>>) : rows \in SeqUpTo(Rows, MaxElems)}
  \cup {El("table", rows) : rows \in SeqUpTo(Rows, MaxElems)}

\* a function that keeps no state, before it is called
CallInit ==
  /\ call_fn = ""
  /\ call_args = <<>>
  /\ call_ret = <<>>

\* a call of such a function, with what it returned
Called(fn, args, ret) ==
  /\ call_fn' = fn
  /\ call_args' = args
  /\ call_ret' = ret
  /\ UNCHANGED otherThanCall

(***************************************************************************)
(* The specifications.                                                     *)
(***************************************************************************)
\* the extraction pipeline
\* every part before its first call; the Extractor has no API key
NoKey ==
  /\ ExtractInit /\ claude_api_key = ""
  /\ ValidateInit /\ SyncInit /\ CrossInit /\ BuilderInit /\ DriverInit /\ CallInit

Idle == NoKey /\ ScraperInit({})

Init ==
  /\ ExtractInit /\ ValidateInit /\ SyncInit /\ CrossInit /\ ScraperInit({})
  /\ BuilderInit /\ DriverInit /\ CallInit

Next ==
  \/ ExtractCall
  \/ Tier1
  \/ Tier2
  \/ Tier3Call

Spec == Init /\ [][Next]_vars

\* the extraction pipeline, run a second time on the same bytes
NextRerun ==
  \/ ExtractCall
  \/ Tier1
  \/ Tier2
  \/ Tier3Call
  \/ ExtractAgain

SpecRerun == Init /\ [][NextRerun]_vars

\* validation
InitValidate == Idle

NextValidate == ValidateCall

SpecValidate == InitValidate /\ [][NextValidate]_vars

\* the Drupal sync
InitSync == Idle

NextSync ==
  \/ SyncExtractionCall
  \/ SyncAllStart
  \/ SyncAllStep

SpecSync == InitSync /\ [][NextSync]_vars

\* cross-referencing
InitCross == Idle

NextCross == CrossReferenceCall

SpecCross == InitCross /\ [][NextCross]_vars

\* one Scraper called by one thread, one call after another
InitScraper == NoKey /\ ScraperInit({"w1"})

NextScraper ==
  \/ BeginCall
  \/ CheckRobotsStep
  \/ RobotsReadStep
  \/ RateLimitStep
  \/ RateLimitWakeStep
  \/ RateLimitRecordStep
  \/ ClientGetStep
  \/ RespondStep
  \/ BackoffWakeStep

SpecScraper == InitScraper /\ [][NextScraper]_vars

\* one Scraper shared by the threads of a fan-out
InitFanOut == NoKey /\ ScraperInit(Workers)

NextFanOut ==
  \/ FanOutBegin
  \/ CheckRobotsStep
  \/ FanOutRobotsRead
  \/ RateLimitStep
  \/ RateLimitWakeStep
  \/ RateLimitRecordStep
  \/ ClientGetStep
  \/ FanOutRespond

SpecFanOut == InitFanOut /\ [][NextFanOut]_vars

\* the template builder and the template files
InitBuilder == Idle

NextBuilder ==
  \/ BuildWebCall
  \/ BuildPdfCall
  \/ ComposeCall
  \/ SaveTemplate
  \/ LoadTemplateCall

SpecBuilder == InitBuilder /\ [][NextBuilder]_vars

\* extract, validate_extraction and cross_reference applied to one result, in
\* any order and any number of times
NextPipeline ==
  \/ PipelineExtractCall
  \/ Tier1
  \/ Tier2
  \/ Tier3Call
  \/ ExtractAnewCall
  \/ ValidateExtractedCall
  \/ CrossReferenceExtractedCall

SpecPipeline == Init /\ [][NextPipeline]_vars

\* the functions of parser.py, each called once on one input
ExpandDayRangeCall ==
  /\ call_fn = ""
  /\ \E a \in 1..7, b \in 1..7 :
       Called("expand_day_range", <<DAYS_FULL[a], DAYS_FULL[b]>>,
              expand_day_range(DAYS_FULL[a], DAYS_FULL[b]))

FindTimesCall ==
  /\ call_fn = ""
  /\ \E line \in ParserLines : Called("find_times", <<line>>, find_times(line))

FindDaysCall ==
  /\ call_fn = ""
  /\ \E line \in ParserLines : Called("find_days", <<line>>, find_days(line))

ParseDayTimeBlockCall ==
  /\ call_fn = ""
  /\ \E block \in BlockTexts :
       Called("parse_day_time_block", <<block>>, parse_day_time_block(block))

InitParser == Idle

NextParser ==
  \/ ExpandDayRangeCall
  \/ FindTimesCall
  \/ FindDaysCall
  \/ ParseDayTimeBlockCall

SpecParser == InitParser /\ [][NextParser]_vars

\* ParishDiscovery.deduplicate, called once on one list
DeduplicateCall ==
  /\ call_fn = ""
  /\ \E all_parishes \in ParishLists :
       Called("deduplicate", <<all_parishes>>, deduplicate(all_parishes))

InitDiscovery == Idle

NextDiscovery == DeduplicateCall

SpecDiscovery == InitDiscovery /\ [][NextDiscovery]_vars

\* the builder and the extractor read the same section of the same page
ReadSectionCall ==
  /\ call_fn = ""
  /\ \E section \in Sections :
       Called("read_section", <<section>>,
              [builder |-> parse_day_time_block(SectionText(section)),
               extractor |-> parse_day_time_block(ElementText(section))])

InitSection == Idle

NextSection == ReadSectionCall

SpecSection == InitSection /\ [][NextSection]_vars

InitDriver == Idle

NextDriver ==
  \/ MainStartCall
  \/ MainStepCall
  \/ MainEnd

SpecDriver == InitDriver /\ [][NextDriver]_vars

InitSave == Idle

NextSave == SaveResultCall

SpecSave == InitSave /\ [][NextSave]_vars

(***************************************************************************)
(* The extraction pipeline: claims checked under Spec.                     *)
(***************************************************************************)
\* C1: in every run of extract the tiers are attempted in the order 1, 2, 3:
\* Tier 2 only after Tier 1 returned nothing, Tier 3 only after Tier 2
\* returned nothing and only with an API key and dry_run false; no tier is
\* attempted after one that succeeded, and the times returned are those of the
\* last tier attempted.
C1_TiersInOrder ==
  /\ attempts \in {<<>>, <<1>>, <<1, 2>>, <<1, 2, 3>>}
  /\ Len(attempts) >= 2 => ~IsSome(_tier1_static(template, text))
  /\ Len(attempts) >= 3 =>
       /\ ~IsSome(_tier2_code(template, text))
       /\ claude_api_key # ""
       /\ ~dry_run
  /\ (pc = "done" /\ result.times # <<>>) =>
       /\ attempts # <<>>
       /\ result.tier = attempts[Len(attempts)]

\* a run that went through the three tiers and got its times from Tier 3
C1_Witness ==
  /\ pc = "done"
  /\ attempts = <<1, 2, 3>>
  /\ result.tier = 3
  /\ result.times # <<>>

\* C2: every result extract returns has tier = 1 only with confidence 1.0.
C2_Tier1FullConfidence ==
  pc = "done" => (result.tier = 1 => result.confidence = 100)

C5_Tier2 ==
  Len(attempts) >= 2 =>
    LET ps == Pairs(parse_day_time_block(text))
        min_required == IF IsSome(template.validation_rules.min_weekly_masses)
                          THEN Get(template.validation_rules.min_weekly_masses)
                          ELSE 5
    IN  IF Len(ps) = 0 \/ Len(ps) < min_required
          THEN pc = "tier3" \/ (pc = "done" /\ result.tier # 2)
          ELSE /\ pc = "done"
               /\ attempts = <<1, 2>>
               /\ Len(result.times) = Len(ps)
               /\ \A i \in 1..Len(ps) :
                    result.times[i].day = ps[i][1] /\ result.times[i].time = ps[i][2]
               /\ result.tier = 2
               /\ result.confidence = 85
               /\ result.validation_status = "confirmed"

\* Tier 2 returned exactly as many times as the rule of the template asks for
C5_Witness ==
  /\ pc = "done"
  /\ attempts = <<1, 2>>
  /\ result.tier = 2
  /\ template.validation_rules.min_weekly_masses = Some(2)
  /\ Len(result.times) = 2

\* C6: the LLM is called at most once in a run of extract, and when Tier 3
\* fails (no package, the call raises, no closed fence, no JSON, no object, no
\* times) extract returns a flagged result with no times and confidence 0.0.
C6_LlmFailureTerminal ==
  /\ llm_calls <= 1
  /\ (pc = "done" /\ IsSome(llm_answer)
        /\ (Get(llm_answer).kind # "ok" \/ Get(llm_answer).times = <<>>)) =>
       /\ result.times = <<>>
       /\ result.validation_status = "flagged"
       /\ result.confidence = 0

\* the LLM was called once, its answer was no JSON, and the result is flagged
C6_Witness ==
  /\ pc = "done"
  /\ IsSome(llm_answer)
  /\ Get(llm_answer).kind = "bad_json"
  /\ llm_calls = 1
  /\ result.validation_status = "flagged"

\* C7: when the fetcher returns nothing, or when no tier returns times,
\* extract returns no times, flagged, confidence 0.0; content_hash is "" when
\* the fetch failed and the hash the fetcher returned when it succeeded.
C7_NothingExtracted ==
  pc = "done" =>
    /\ (\/ ~IsSome(fetched)
        \/ /\ ~IsSome(_tier1_static(template, text))
           /\ ~IsSome(_tier2_code(template, text))
           /\ ~IsSome(llm_answer) \/ ~IsSome(_tier3_llm(template, text, Get(llm_answer)).times)) =>
         /\ result.times = <<>>
         /\ result.validation_status = "flagged"
         /\ result.confidence = 0
    /\ ~IsSome(fetched) => result.content_hash = ""
    /\ IsSome(fetched) =>
         result.content_hash =
           IF IsSome(answers.page) THEN Sha256(Get(answers.page))
                                   ELSE Sha256(Get(answers.pdf))

\* every tier escalated on a fetched PDF, and the hash of the PDF is kept
C7_Witness ==
  /\ pc = "done"
  /\ IsSome(fetched)
  /\ IsSome(answers.pdf)
  /\ attempts = <<1, 2, 3>>
  /\ result.validation_status = "flagged"
  /\ result.content_hash # ""

\* C8: extract never raises to its caller.
C8_NeverRaises == pc # "raised"

\* C9: for a website_page or structured_data template with a web sub-template
\* the page is fetched; when the fetcher returns it, the text is that of the
\* first selector that matches (section_selector, then fallback_selectors in
\* order), or of the whole document when none matches, and the tiers are run.
C9_WebContent ==
  (/\ pc \notin {"idle", "raised"}
   /\ template.source_type \in {"website_page", "structured_data"}
   /\ IsSome(template.web_template)) =>
    /\ "fetch_page" \in asked
    /\ IsSome(answers.page) =>
         LET page == Get(answers.page)
             selectors == <<Get(template.web_template).section_selector>>
                          \o Get(template.web_template).fallback_selectors
             Matches(i) == {j \in 1..Len(page) : page[j].sel = selectors[i]}
             matching == {i \in 1..Len(selectors) : Matches(i) # {}}
             first == CHOOSE i \in matching : \A k \in matching : i <= k
             element == CHOOSE j \in Matches(first) : \A k \in Matches(first) : j <= k
         IN  /\ IsSome(fetched)
             /\ attempts # <<>> \/ pc = "tier1"
             /\ text = IF matching = {} THEN LinesOf(page) ELSE <<page[element].line>>

\* C14: a second run of extract with the same template and the same fetched
\* bytes returns a result equal to that of the first run in every field
\* (extracted_at aside), whichever tier produces it.
C14_Deterministic ==
  (pc = "done" /\ IsSome(previous)) => result = Get(previous)

(***************************************************************************)
(* Validation: claims checked under SpecValidate.                          *)
(***************************************************************************)
\* C10: validate_extraction of a result with no times returns it flagged with
\* confidence 0.0; of a result with times and no issue, confirmed with its
\* confidence unchanged, whatever its status was.
C10_EmptyFlaggedCleanConfirmed ==
  v_pc = "done" =>
    /\ v_before.times = <<>> =>
         /\ v_result.validation_status = "flagged"
         /\ v_result.confidence = 0
    /\ (v_before.times # <<>> /\ v_issues = <<>>) =>
         /\ v_result.validation_status = "confirmed"
         /\ v_result.confidence = v_before.confidence

\* a flagged result with times passed validation without an issue
C10_Witness ==
  /\ v_pc = "done"
  /\ v_before.times # <<>>
  /\ v_before.validation_status = "flagged"
  /\ v_issues = <<>>
  /\ v_result.validation_status = "confirmed"
  /\ v_result.confidence = 30

\* C11: validate_extraction of a result with times: when the only issue is a
\* Sunday count that differs from expected_sunday_count by more than one, the
\* result is provisional with confidence min(confidence, 0.7); when the count
\* is below the minimum or above the maximum, or no Sunday mass is found though
\* Sundays are expected, or more than half of the times changed against the
\* previous ones with alert_if_all_change, it is flagged with confidence
\* min(confidence, 0.3).
C11_IssueMapping ==
  (v_pc = "done" /\ v_before.times # <<>>) =>
    LET times == v_before.times
        min_masses == IF IsSome(v_rules.min_weekly_masses)
                        THEN Get(v_rules.min_weekly_masses) ELSE 5
        max_masses == IF IsSome(v_rules.max_weekly_masses)
                        THEN Get(v_rules.max_weekly_masses) ELSE 20
        expected == IF IsSome(v_rules.expected_sunday_count)
                      THEN Get(v_rules.expected_sunday_count) ELSE 0
        alert == IF IsSome(v_rules.alert_if_all_change)
                   THEN Get(v_rules.alert_if_all_change) ELSE TRUE
        sundays == Cardinality({i \in 1..Len(times) : times[i].day = "Sunday"})
        prev == IF IsSome(v_previous_times)
                  THEN {<<Get(v_previous_times)[i].day, Get(v_previous_times)[i].time>> :
                          i \in 1..Len(Get(v_previous_times))}
                  ELSE {}
        curr == {<<times[i].day, times[i].time>> : i \in 1..Len(times)}
        changed == Cardinality(prev \ curr) + Cardinality(curr \ prev)
        larger == IF Cardinality(prev) >= Cardinality(curr)
                    THEN Cardinality(prev) ELSE Cardinality(curr)
        sunday_off == expected > 0 /\ sundays > 0
                      /\ (sundays - expected > 1 \/ expected - sundays > 1)
        other == \/ Len(times) < min_masses
                 \/ Len(times) > max_masses
                 \/ expected > 0 /\ sundays = 0
                 \/ prev # {} /\ 2 * changed > larger /\ alert
    IN  /\ (sunday_off /\ ~other) =>
             /\ v_result.validation_status = "provisional"
             /\ v_result.confidence =
                  IF v_before.confidence <= 70 THEN v_before.confidence ELSE 70
        /\ other =>
             /\ v_result.validation_status = "flagged"
             /\ v_result.confidence =
                  IF v_before.confidence <= 30 THEN v_before.confidence ELSE 30

\* one Sunday mass where three are expected: provisional, 1.0 lowered to 0.7
C11_Witness ==
  /\ v_pc = "done"
  /\ v_issues = <<IssueSunday>>
  /\ v_before.confidence = 100
  /\ v_result.validation_status = "provisional"
  /\ v_result.confidence = 70

(***************************************************************************)
(* The Drupal sync: claims checked under SpecSync.                         *)
(***************************************************************************)
\* C3: no mass-time paragraph POST and no parish PATCH is sent for a result
\* file whose validation_status is flagged.
C3_FlaggedNeverPublished ==
  \A i \in 1..Len(requests) :
     requests[i].method \in {"POST", "PATCH"} =>
       requests[i].file.data.validation_status # "flagged"

C13_AgreementConfirms ==
  (/\ x_pc = "done"
   /\ x_results # <<>>
   /\ \A i, j \in 1..Len(x_results) :
        DayTimeSet(x_results[i].times) = DayTimeSet(x_results[j].times)) =>
    /\ Get(x_best).validation_status = "confirmed"
    /\ \A i \in 1..Len(x_results) : Get(x_best).confidence >= x_results[i].confidence

(***************************************************************************)
(* The Scraper called by one thread: claims checked under SpecScraper.     *)
(***************************************************************************)
\* the requests sent to one domain, in the order they were sent
SentTo(domain) == SelectSeq(sent, LAMBDA r : Netloc(r.url) = domain)

\* every request of the log is at least REQUEST_DELAY after the one before it
Spaced(log) ==
  \A i \in 1..Len(log) : i > 1 => log[i].at - log[i - 1].at >= REQUEST_DELAY

\* C15: whatever calls of fetch_page, fetch_pdf and find_latest_pdf_link one
\* thread makes one after another, two consecutive requests to the same
\* domain, the retries and the request for robots.txt among them, are at
\* least 2 seconds apart
C15_RequestsSpaced == \A domain \in Domains : Spaced(SentTo(domain))

\* the same with the requests for robots.txt left out
PagesSpaced ==
  \A domain \in Domains :
    Spaced(SelectSeq(SentTo(domain), LAMBDA r : r.url # RobotsUrl(r.url)))

\* the requests thread w has sent for the URL of its present call
Attempts(w) ==
  SelectSeq(sent, LAMBDA r : r.by = w /\ r.call = s_calls[w] /\ r.url = s_call[w].url)

\* the call of thread w has returned
HasReturned(w) == s_calls[w] > 0 /\ s_pc[w] = "idle"

\* one more step of the call of thread w
StepOf(w) ==
  \/ CheckRobots(w)
  \/ \E rp \in RobotsReads : RobotsRead(w, rp)
  \/ RateLimit(w)
  \/ RateLimitWake(w)
  \/ RateLimitRecord(w)
  \/ ClientGet(w)
  \/ \E resp \in Responses, latency \in 0..MaxLatency : Respond(w, resp, latency)
  \/ BackoffWake(w)

Disallowed(w) ==
  /\ s_calls[w] > 0
  /\ s_pc[w] \notin {"check_robots", "robots_read"}
  /\ IsSome(_robots_cache[Netloc(s_call[w].url)])
  /\ ~can_fetch(Get(_robots_cache[Netloc(s_call[w].url)]), s_call[w].url)

\* a 4xx status other than 429
PermanentStatus(status) == status >= 400 /\ status < 500 /\ status # 429

\* when robots.txt disallows the URL, the call sends no request for it
RobotsTerminal ==
  \A w \in workers :
    Disallowed(w) => Attempts(w) = <<>> /\ HasReturned(w) /\ s_ret[w] = None

\* C18: permanent failures are terminal for the URL: when robots.txt
\* disallows the URL the call sends no request for it, and when a request
\* is answered with a 4xx status other than 429 the call sends no further
\* request for the URL and returns nothing
C18_PermanentFailuresTerminal ==
  /\ RobotsTerminal
  /\ \A w \in workers :
       \A k \in 1..Len(s_outcomes[w]) :
         PermanentStatus(s_outcomes[w][k].status) =>
           /\ Len(Attempts(w)) = k
           /\ HasReturned(w)
           /\ s_ret[w] = None
(***************************************************************************)
\* the requests for pages and PDF files sent to one domain
PagesSentTo(domain) == SelectSeq(SentTo(domain), LAMBDA r : r.url # RobotsUrl(r.url))

\* C16: when two threads run concurrently through one shared Scraper, the
\* map of last requests keeps a time for every domain a request was sent to
\* and no two requests for pages of the same domain are sent less than
\* 2 seconds apart
C16_FanOutSafe ==
  \A domain \in Domains :
    /\ _last_request_by_domain[domain] <= now
    /\ PagesSentTo(domain) # <<>> => _last_request_by_domain[domain] > 0
    /\ Spaced(PagesSentTo(domain))

(***************************************************************************)
(* The template builder: claims checked under SpecBuilder.                 *)
(***************************************************************************)
\* C19: every ParishTemplate that build_web_template or build_pdf_template
\* returns has baseline_times that are not empty; with no times found the
\* builder returns nothing
C19_BaselineNeverEmpty ==
  b_pc = "built" /\ IsSome(b_template) => Get(b_template).baseline_times # <<>>

\* the same of the templates built without a region of a PDF
BaselineNeverEmptyButRegion ==
  b_pc = "built" /\ IsSome(b_template)
    /\ Get(b_template).extraction_method # "pdf_region_regex"
    => Get(b_template).baseline_times # <<>>

\* C20: a template comes back from to_dict and from_dict equal in every
\* field, with a sub-template exactly when it had one; to_dict writes the
\* key web_template or pdf_template only for a sub-template that is there;
\* load_template returns the template that was saved under the parish id,
\* and nothing when there is no file of that name
C20_RoundTrip ==
  /\ IsSome(b_template) =>
       LET t == Get(b_template)
           d == to_dict(t)
       IN  /\ from_dict(d) = t
           /\ IsSome(from_dict(d).web_template) <=> IsSome(t.web_template)
           /\ IsSome(from_dict(d).pdf_template) <=> IsSome(t.pdf_template)
           /\ "web_template" \in DOMAIN d <=> IsSome(t.web_template)
           /\ "pdf_template" \in DOMAIN d <=> IsSome(t.pdf_template)
  /\ b_pc = "loaded" =>
       IF IsSome(b_saved) /\ Get(b_saved).parish_id = b_loaded.parish_id
       THEN b_loaded.template = b_saved
       ELSE ~IsSome(templates_dir[b_loaded.parish_id]) /\ b_loaded.template = None

\* a template with both sub-templates, saved and loaded again
C20_Witness ==
  /\ b_pc = "loaded"
  /\ IsSome(b_loaded.template)
  /\ IsSome(Get(b_loaded.template).web_template)
  /\ IsSome(Get(b_loaded.template).pdf_template)
  /\ Get(Get(b_loaded.template).pdf_template).mass_times_page = 1
  /\ Get(b_loaded.template).notes # ""

(***************************************************************************)
(* The extraction driver: claims checked under SpecSave and SpecDriver.    *)
(***************************************************************************)
\* C21: a result that was written stays as it was written and can still be
\* read after any later extraction cycle for the same parish: everything
\* save_result has written is still held by a file of the results directory,
\* the later results (with their later extracted_at) next to the earlier ones.
C21_WrittenResultsRetained ==
  \A i \in 1..Len(d_written) : \E f \in ResultFiles : d_files[f] = Some(d_written[i])

\* the passes of the loop so far in which extract returned the flagged result,
\* without times, of a parish none of whose sources could be fetched
Unreachable ==
  {i \in 1..Len(d_extracted) :
     /\ ~d_extracted[i].raised
     /\ d_extracted[i].result.times = <<>>
     /\ d_extracted[i].result.validation_status = "flagged"}

\* the driver goes on with the remaining parishes and exits non-zero
UnreachableCounted ==
  \A i \in Unreachable :
    /\ d_failures > 0
    /\ d_pc = "exited" => d_next > Len(d_templates) /\ d_exit = Some(1)

\* C22: a parish none of whose sources could be fetched is still reported: its
\* flagged result without times is in the results of the cycle and, unless the
\* cycle is a dry run, in the results directory; the driver goes on with the
\* remaining parishes and exits non-zero.
C22_UnreachableReported ==
  /\ UnreachableCounted
  /\ \A i \in Unreachable :
       LET id == d_extracted[i].result.parish_id
       IN  /\ \E k \in 1..Len(d_results) :
                /\ d_results[k].parish_id = id
                /\ d_results[k].times = <<>>
                /\ d_results[k].validation_status = "flagged"
           /\ ~d_args.dry_run =>
                /\ IsSome(d_files[ResultFile(id)])
                /\ Get(d_files[ResultFile(id)]).data.times = <<>>
                /\ Get(d_files[ResultFile(id)]).data.validation_status = "flagged"

(***************************************************************************)
(* The result through the pipeline: claim checked under SpecPipeline.      *)
(***************************************************************************)
\* C23: whatever extract, validate_extraction and cross_reference calls have
\* been applied to a result, in any order and any number of times, its
\* confidence lies in [0, 1] (0..100 hundredths), its tier is 1, 2 or 3 and
\* its validation_status is confirmed, provisional or flagged.
C23_ResultInRange ==
  /\ result.confidence \in 0..100
  /\ result.tier \in {1, 2, 3}
  /\ result.validation_status \in {"confirmed", "provisional", "flagged"}

\* a Tier-2 result (0.85) that validation flagged (0.3) and that
\* cross_reference then confirmed with the boost (0.4)
C23_Witness ==
  /\ pc = "done"
  /\ result.tier = 2
  /\ result.confidence = 40
  /\ result.validation_status = "confirmed"

(***************************************************************************)
(* The parser: claims checked under SpecParser.                            *)
(***************************************************************************)
\* C24: for every pair (a, b) of the seven day names expand_day_range(a, b)
\* is a non-empty list of consecutive days of the Monday..Sunday cycle that
\* starts with a and ends with b, wrapping past Sunday when a comes after b,
\* of length ((idx(b) - idx(a)) mod 7) + 1.
C24_ExpandDayRange ==
  call_fn = "expand_day_range" =>
    LET a == call_args[1]
        b == call_args[2]
        days == call_ret
    IN  /\ Len(days) = ((DayIndex(b) - DayIndex(a)) % 7) + 1
        /\ days[1] = a
        /\ days[Len(days)] = b
        /\ \A i \in 1..(Len(days) - 1) :
             DayIndex(days[i + 1]) = (DayIndex(days[i]) % 7) + 1

\* Saturday to Monday, past Sunday
C24_Witness ==
  /\ call_fn = "expand_day_range"
  /\ call_args = <<"Saturday", "Monday">>
  /\ call_ret = <<"Saturday", "Sunday", "Monday">>

\* C25: the list find_times returns is strictly ascending by sort_key and
\* holds no two entries with the same formatted string.
C25_FindTimesSortedDistinct ==
  call_fn = "find_times" =>
    \A i \in 1..Len(call_ret) : \A j \in (i + 1)..Len(call_ret) :
      /\ sort_key(call_ret[i]) < sort_key(call_ret[j])
      /\ formatted(call_ret[i]) # formatted(call_ret[j])

\* "17:00, 10am, 10:00 AM": out of order, and 10 o'clock twice
C25_Witness ==
  /\ call_fn = "find_times"
  /\ call_args = <<<<H24Tok(17, 0), BareTok(10, "AM"), ColonTok(10, 0, "AM")>>>>
  /\ Len(call_ret) = 2
  /\ formatted(call_ret[1]) = "10:00 AM"
  /\ formatted(call_ret[2]) = "5:00 PM"

\* the days a token names, as they are written in it
TokenDays(t) ==
  IF t.k = "range" THEN expand_day_range(t.s, t.e)
  ELSE IF t.k = "day" THEN <<t.s>>
  ELSE IF t.k = "word" /\ t.s = "weekday" THEN SubSeq(DAYS_FULL, 1, 5)
  ELSE IF t.k = "word" /\ t.s = "weekend" THEN SubSeq(DAYS_FULL, 6, 7)
  ELSE <<>>

\* the days of a line in the order in which they appear in it, each once
RECURSIVE DaysAsTheyAppear(_, _)
DaysAsTheyAppear(days, line) ==
  IF line = <<>> THEN days
  ELSE DaysAsTheyAppear(AddDays(days, TokenDays(Head(line))), Tail(line))

\* find_days returns canonical day names, each at most once
FindDaysCanonicalOnce ==
  call_fn = "find_days" =>
    /\ \A i \in 1..Len(call_ret) : \E d \in 1..7 : call_ret[i] = DAYS_FULL[d]
    /\ \A i \in 1..Len(call_ret) : \A j \in (i + 1)..Len(call_ret) : call_ret[i] # call_ret[j]

\* C26: find_days returns canonical full day names in the order in which
\* they appear in the text, each day at most once even when it is matched
\* both inside a range (or Weekday / Weekend) and as a name of its own.
C26_FindDaysInTextOrder ==
  /\ FindDaysCanonicalOnce
  /\ call_fn = "find_days" => call_ret = DaysAsTheyAppear(<<>>, call_args[1])

\* the time a token spells: that of a colon time with a valid hour, that of a
\* bare hour, that of a 24-hour time
TokenTime(t) ==
  IF t.k = "colon"
    THEN (IF t.h >= 1 /\ t.h <= 12 /\ t.m <= 59
            THEN <<ParsedTime(t.h, t.m, t.p, t.c)>> ELSE <<>>)
  ELSE IF t.k = "bare" THEN ParseBare(t.h, t.p)
  ELSE IF t.k = "h24" THEN Parse24(t)
  ELSE <<>>

\* the formatted times of a line in the order they are met in it, none left out
RECURSIVE TimesAsEncountered(_)
TimesAsEncountered(line) ==
  IF line = <<>> THEN <<>>
  ELSE FormattedAll(TokenTime(Head(line))) \o TimesAsEncountered(Tail(line))

\* the reference map of a text, built line by line
RECURSIVE ReferenceMap(_, _)
ReferenceMap(map, lines) ==
  IF lines = <<>> THEN map
  ELSE LET days == find_days(Head(lines))
           times == TimesAsEncountered(Head(lines))
       IN  IF days # <<>> /\ times # <<>>
             THEN ReferenceMap(ExtendDays(map, days, times), Tail(lines))
             ELSE ReferenceMap(map, Tail(lines))

\* a day-to-times map as a dict: the order of its keys does not count
AsDict(map) == {map[i] : i \in 1..Len(map)}

\* a line with days and no time, or with times and no day, adds nothing, and
\* no day gets a time of another line
LinesKeptApart ==
  call_fn = "parse_day_time_block" =>
    \A i \in 1..Len(call_ret) :
      \A k \in 1..Len(call_ret[i].times) :
        \E l \in 1..Len(call_args[1]) :
          LET line == call_args[1][l]
              days == find_days(line)
              times == FormattedAll(find_times(line))
          IN  /\ \E d \in 1..Len(days) : days[d] = call_ret[i].day
              /\ \E t \in 1..Len(times) : times[t] = call_ret[i].times[k]

\* C27: parse_day_time_block(text) equals the reference map built line by
\* line: every day of a line that holds a day and a time gets all the
\* formatted times of the line appended in the order they are met in the
\* line, none removed as a duplicate; other lines add nothing, and no day is
\* paired with a time of another line.
C27_BlockEqualsReference ==
  /\ LinesKeptApart
  /\ call_fn = "parse_day_time_block" =>
       AsDict(call_ret) = AsDict(ReferenceMap(<<>>, call_args[1]))

\* C29: the bare-hour pattern takes no digits of another time: every entry
\* find_times returns is the time some token of the text spells, so a text of
\* h:mm am/pm times only yields one entry per such time and no hh:00 entry
\* from the minute digits.
C29_NoEntryFromMinuteDigits ==
  call_fn = "find_times" =>
    \A i \in 1..Len(call_ret) :
      \E k \in 1..Len(call_args[1]) :
        /\ TokenTime(call_args[1][k]) # <<>>
        /\ formatted(TokenTime(call_args[1][k])[1]) = formatted(call_ret[i])

(***************************************************************************)
(* Discovery: claim checked under SpecDiscovery.                           *)
(***************************************************************************)
\* no two returned entries share an id or a name equal but for case
NoSharedName ==
  call_fn = "deduplicate" =>
    \A i \in 1..Len(call_ret) : \A j \in (i + 1)..Len(call_ret) :
      ~name_match(call_ret[i], call_ret[j])

\* what a listed parish holds is held by a returned entry that is the same
\* parish by id or name, or within 100 m
MetadataFilled ==
  call_fn = "deduplicate" =>
    \A k \in 1..Len(call_args[1]) :
      LET parish == call_args[1][k]
      IN  \E i \in 1..Len(call_ret) :
            /\ name_match(call_ret[i], parish) \/ close(call_ret[i], parish)
            /\ parish.website # "" => call_ret[i].website # ""
            /\ parish.phone # "" => call_ret[i].phone # ""
            /\ parish.lat # 0 => call_ret[i].lat # 0

\* C28: after deduplicate no two parishes of the returned list are the same
\* entity: no two returned entries share an id or a name equal but for case,
\* no two returned entries that both have coordinates (those merged into an
\* entry during deduplication included) lie within 100 m of each other, and
\* metadata missing on the kept entry is filled from the duplicate.
C28_NoDuplicatesReturned ==
  /\ NoSharedName
  /\ MetadataFilled
  /\ call_fn = "deduplicate" =>
       \A i \in 1..Len(call_ret) : \A j \in (i + 1)..Len(call_ret) :
         ~close(call_ret[i], call_ret[j])

(***************************************************************************)
(* Builder and extractor on one section: claim checked under SpecSection.  *)
(***************************************************************************)
\* the two agree on sections whose day and time share one string
SameOnFlatSections ==
  call_fn = "read_section" =>
    ((\A i \in 1..Len(call_args[1].children) :
        /\ call_args[1].children[i].tag \in {"p", "li"}
        /\ Len(call_args[1].children[i].children) = 1)
       => AsDict(call_ret.builder) = AsDict(call_ret.extractor))

\* C30: builder and extractor read the same section the same way: for every
\* section the builder selects (paragraphs, nested container, list, table)
\* the day-to-times map parsed from the builder's section text equals the
\* map parsed from the extractor's section text, so that on an unchanged page
\* Tier 2 finds the baseline_times of the template again.
C30_SameSectionSameMap ==
  call_fn = "read_section" => AsDict(call_ret.builder) = AsDict(call_ret.extractor)

====
